---- MODULE Spec2Model ----
(***************************************************************************)
(* Model of the translation-audit core of src/translation-audit/server.py: *)
(* the string classifier, the exceptions loader, the visual and page       *)
(* extractors, the scan orchestrator, the reporter and the coverage        *)
(* validator, driven by the three MCP tools.                               *)
(*                                                                         *)
(* A Python str is a sequence of characters, each a one-character string   *)
(* (a character outside ASCII is written by its code point, "U+00F6").     *)
(* A JSON value is a tagged record; a JSON object keeps its keys in file   *)
(* order, as Python's dict does.  A Python exception that leaves a function  *)
(* is the value JRaise (for a JSON-valued expression) or a result with     *)
(* raised = TRUE.                                                          *)
(***************************************************************************)
EXTENDS Integers, Sequences, FiniteSets, TLC

VARIABLES
    languageTable, \* the module's dict LANGUAGE_CHARS, as the process holds it
    visualFiles,  \* path -> content of each visual.json the glob finds
    pageFiles,    \* page directory -> content of its page.json
    excFile,      \* content of the exceptions file
    args,         \* the arguments the client passes to the tools
    call,         \* the tool called last, "none" since the files last changed
    out,          \* what the latest call returned, or that it raised
    trace,        \* the latest call's intermediate results
    prev,         \* the call made before the latest one, with its outcome
    pending,      \* the call that is running, and the files it has yet to read
    openFiles,    \* the paths of the files that are open, as they were opened
    _state,       \* the module's _state of powerbi_modeling_mcp/connection.py
    servers       \* the TOM Server objects made so far: connected or not

vars == <<languageTable, visualFiles, pageFiles, excFile, args, call, out, trace, prev,
          pending, openFiles, _state, servers>>

-----------------------------------------------------------------------------
(* Characters and Python's str methods                                     *)

UpperLetters == <<"A","B","C","D","E","F","G","H","I","J","K","L","M",
                  "N","O","P","Q","R","S","T","U","V","W","X","Y","Z">>
LowerLetters == <<"a","b","c","d","e","f","g","h","i","j","k","l","m",
                  "n","o","p","q","r","s","t","u","v","w","x","y","z">>

Range(s) == {s[i] : i \in 1..Len(s)}

\* The sequence f, with its elements computed once.
AsSeq(f) == f \o <<>>

DigitChars == {"0","1","2","3","4","5","6","7","8","9"}
HexChars == DigitChars \cup {"a","b","c","d","e","f","A","B","C","D","E","F"}
WhiteSpace == {" ", "\t", "\n", "\r"}

\* The letters of the language table besides a-z and A-Z.
AccentedLetters ==
    {"U+00C0","U+00C1","U+00C2","U+00C3","U+00C4","U+00C5","U+00C6","U+00C7",
     "U+00C8","U+00C9","U+00CA","U+00CB","U+00CC","U+00CD","U+00CE","U+00CF",
     "U+00D1","U+00D2","U+00D3","U+00D4","U+00D5","U+00D6","U+00D8","U+00D9",
     "U+00DA","U+00DB","U+00DC","U+00DF","U+00E0","U+00E1","U+00E2","U+00E3",
     "U+00E4","U+00E5","U+00E6","U+00E7","U+00E8","U+00E9","U+00EA","U+00EB",
     "U+00EC","U+00ED","U+00EE","U+00EF","U+00F1","U+00F2","U+00F3","U+00F4",
     "U+00F5","U+00F6","U+00F8","U+00F9","U+00FA","U+00FB","U+00FC","U+0104",
     "U+0105","U+0106","U+0107","U+0118","U+0119","U+0141","U+0142","U+0143",
     "U+0144","U+015A","U+015B","U+0179","U+017A","U+017B","U+017C"}

\* str.isalpha on one character
IsAlpha(c) == c \in Range(UpperLetters) \cup Range(LowerLetters) \cup AccentedLetters

\* what re.I makes of one character
LowerChar(c) ==
    IF \E i \in 1..26 : UpperLetters[i] = c
    THEN LowerLetters[CHOOSE i \in 1..26 : UpperLetters[i] = c]
    ELSE c

LowerStr(s) == AsSeq([i \in 1..Len(s) |-> LowerChar(s[i])])

RECURSIVE LStrip(_)
LStrip(s) == IF s # <<>> /\ Head(s) \in WhiteSpace THEN LStrip(Tail(s)) ELSE s

RECURSIVE RStrip(_)
RStrip(s) ==
    IF s # <<>> /\ s[Len(s)] \in WhiteSpace
    THEN RStrip(SubSeq(s, 1, Len(s) - 1))
    ELSE s

\* str.strip()
Strip(s) == RStrip(LStrip(s))

StartsWith(s, p) == Len(s) >= Len(p) /\ SubSeq(s, 1, Len(p)) = p

\* p in s, for strs
Contains(s, p) ==
    \E i \in 1..(Len(s) - Len(p) + 1) : SubSeq(s, i, i + Len(p) - 1) = p

-----------------------------------------------------------------------------
(* The string classifier                                                   *)

\* The dict LANGUAGE_CHARS, in its order: <<tag, characters>>.
LANGUAGE_CHARS ==
    << <<<<"s","v","-","S","E">>,
           {"U+00E5","U+00E4","U+00F6","U+00C5","U+00C4","U+00D6"}>>,
       <<<<"n","b","-","N","O">>,
           {"U+00E6","U+00F8","U+00E5","U+00C6","U+00D8","U+00C5"}>>,
       <<<<"d","a","-","D","K">>,
           {"U+00E6","U+00F8","U+00E5","U+00C6","U+00D8","U+00C5"}>>,
       <<<<"d","e","-","D","E">>,
           {"U+00E4","U+00F6","U+00FC","U+00DF","U+00C4","U+00D6","U+00DC"}>>,
       <<<<"f","r","-","F","R">>,
           {"U+00E9","U+00E8","U+00EA","U+00EB","U+00E0","U+00E2","U+00F9","U+00FB",
            "U+00E7","U+00EE","U+00EF","U+00F4","U+00C9","U+00C8","U+00CA","U+00CB",
            "U+00C0","U+00C2","U+00D9","U+00DB","U+00C7","U+00CE","U+00CF","U+00D4"}>>,
       <<<<"e","s","-","E","S">>,
           {"U+00F1","U+00E1","U+00E9","U+00ED","U+00F3","U+00FA","U+00FC","U+00D1",
            "U+00C1","U+00C9","U+00CD","U+00D3","U+00DA","U+00DC"}>>,
       <<<<"p","t","-","B","R">>,
           {"U+00E3","U+00F5","U+00E1","U+00E9","U+00ED","U+00F3","U+00FA","U+00E2",
            "U+00EA","U+00F4","U+00E7","U+00C3","U+00D5","U+00C1","U+00C9","U+00CD",
            "U+00D3","U+00DA","U+00C2","U+00CA","U+00D4","U+00C7"}>>,
       <<<<"i","t","-","I","T">>,
           {"U+00E0","U+00E8","U+00E9","U+00EC","U+00F2","U+00F9","U+00C0","U+00C8",
            "U+00C9","U+00CC","U+00D2","U+00D9"}>>,
       <<<<"p","l","-","P","L">>,
           {"U+0105","U+0107","U+0119","U+0142","U+0144","U+00F3","U+015B","U+017A",
            "U+017C","U+0104","U+0106","U+0118","U+0141","U+0143","U+00D3","U+015A",
            "U+0179","U+017B"}>>,
       <<<<"f","i","-","F","I">>,
           {"U+00E4","U+00F6","U+00C4","U+00D6"}>> >>

\* The strings b for which a pattern ^X$ matches s when X matches all of b:
\* $ matches at the end and before a newline that ends the string.
BeforeDollar(s) ==
    {s} \cup (IF s # <<>> /\ s[Len(s)] = "\n" THEN {SubSeq(s, 1, Len(s) - 1)} ELSE {})

AllIn(s, chars) == \A i \in 1..Len(s) : s[i] \in chars

\* #[0-9a-fA-F]{3,8}
ReHexColor(b) ==
    /\ Len(b) >= 4
    /\ Len(b) <= 9
    /\ b[1] = "#"
    /\ AllIn(SubSeq(b, 2, Len(b)), HexChars)

\* \d+(\.\d+)?
ReDecimal(b) ==
    \/ b # <<>> /\ AllIn(b, DigitChars)
    \/ \E k \in 2..(Len(b) - 1) :
          /\ b[k] = "."
          /\ AllIn(SubSeq(b, 1, k - 1), DigitChars)
          /\ AllIn(SubSeq(b, k + 1, Len(b)), DigitChars)

\* -?\d+(\.\d+)?[DL]?
ReNumber(b) ==
    \E sign \in {0, 1}, suffix \in {0, 1} :
        /\ Len(b) >= sign + suffix
        /\ sign = 1 => b[1] = "-"
        /\ suffix = 1 => b[Len(b)] \in {"D", "L"}
        /\ ReDecimal(SubSeq(b, 1 + sign, Len(b) - suffix))

\* (true|false) with re.I
ReBoolean(b) == LowerStr(b) \in {<<"t","r","u","e">>, <<"f","a","l","s","e">>}

\* datetime'.*'
ReDatetime(b) ==
    /\ StartsWith(b, <<"d","a","t","e","t","i","m","e","'">>)
    /\ Len(b) >= 10
    /\ b[Len(b)] = "'"
    /\ \A i \in 10..(Len(b) - 1) : b[i] # "\n"

\* [\d\s.,;:/%+\-\u2013\u2014=<>()]+
RePunctuation(b) ==
    /\ b # <<>>
    /\ AllIn(b, DigitChars \cup WhiteSpace \cup
                {".", ",", ";", ":", "/", "%", "+", "-", "U+2013", "U+2014",
                 "=", "<", ">", "(", ")"})

\* some pattern of _NON_TRANSLATABLE_RE matches at the start of clean
MatchesNonTranslatableRe(clean) ==
    \/ \E b \in BeforeDollar(clean) : ReHexColor(b)
    \/ StartsWith(clean, <<"r","g","b","(">>)
    \/ StartsWith(clean, <<"r","g","b","a","(">>)
    \/ \E b \in BeforeDollar(clean) : ReNumber(b)
    \/ \E b \in BeforeDollar(clean) : ReBoolean(b)
    \/ \E b \in BeforeDollar(clean) : ReDatetime(b)
    \/ \E b \in BeforeDollar(clean) : b = <<"n","u","l","l">>
    \/ StartsWith(clean, <<"h","t","t","p",":","/","/">>)
    \/ StartsWith(clean, <<"h","t","t","p","s",":","/","/">>)
    \/ \E b \in BeforeDollar(clean) : RePunctuation(b)

FontKeywords ==
    { <<"s","e","r","i","f">>, <<"s","a","n","s","-","s","e","r","i","f">>,
      <<"m","o","n","o">>, <<"w","f","_">>, <<"s","e","g","o","e">>,
      <<"h","e","l","v","e","t","i","c","a">>, <<"a","r","i","a","l">>,
      <<"c","a","l","i","b","r","i">>, <<"c","a","m","b","r","i","a">>,
      <<"v","e","r","d","a","n","a">>, <<"t","a","h","o","m","a">>,
      <<"t","r","e","b","u","c","h","e","t">>, <<"g","e","o","r","g","i","a">>,
      <<"c","o","n","s","o","l","a","s">>, <<"c","o","u","r","i","e","r">> }

\* _FONT_RE.search(clean)
FontReSearch(clean) ==
    LET lower == LowerStr(clean) IN \E w \in FontKeywords : Contains(lower, w)

\* _strip_quotes leaving the quotes where they are.
StripOnly(text) == Strip(text)

_strip_quotes(text) ==
    LET s == Strip(text) IN
    IF Len(s) >= 2 /\ s[1] = s[Len(s)] /\ s[1] \in {"'", "\""}
    THEN SubSeq(s, 2, Len(s) - 1)
    ELSE s

_is_non_translatable(raw) ==
    LET clean == _strip_quotes(Strip(raw)) IN
    \/ Len(clean) < 2
    \/ MatchesNonTranslatableRe(clean)
    \/ FontReSearch(clean) /\ ("," \in Range(clean) \/ "'" \in Range(clean))

\* _has_target_chars seeing no target character anywhere.
NoTargetCharsSeen(text, target) == FALSE

_has_target_chars(text, target) == Range(text) \cap target # {}

_is_readable(text) ==
    LET clean == _strip_quotes(Strip(text)) IN
    /\ \E i \in 1..Len(clean) : IsAlpha(clean[i])
    /\ ~(StartsWith(clean, <<"_">>) /\ " " \notin Range(clean))

\* _resolve_target: the tag's own entry, else the first entry (in the dict's
\* order) whose tag starts with it, else Swedish.  An absent tag is <<>>.
\* The set returned is the table's own, which no caller writes to.
\* The entries whose tag the given tag starts with.
TagsThatPrefix(lang) == {i \in 1..Len(languageTable) : StartsWith(lang, languageTable[i][1])}

LangIndex(lang) == {i \in 1..Len(languageTable) : languageTable[i][1] = lang}
PrefixIndex(lang) == {i \in 1..Len(languageTable) : StartsWith(languageTable[i][1], lang)}
Least(S) == CHOOSE i \in S : \A j \in S : i <= j

_resolve_target(lang) ==
    IF lang # <<>> /\ LangIndex(lang) # {}
    THEN languageTable[Least(LangIndex(lang))][2]
    ELSE IF lang # <<>> /\ PrefixIndex(lang) # {}
    THEN languageTable[Least(PrefixIndex(lang))][2]
    ELSE languageTable[Least(LangIndex(<<"s","v","-","S","E">>))][2]

-----------------------------------------------------------------------------
(* JSON values as Python sees them                                         *)

JObj(kv) == [t |-> "obj", kv |-> kv]     \* dict: <<key, value>> pairs in order, keys strs
JArr(a) == [t |-> "arr", a |-> a]        \* list
JStr(s) == [t |-> "str", s |-> s]        \* str
JNum(n) == [t |-> "num", n |-> n]        \* int
JBool(b) == [t |-> "bool", b |-> b]
JNull == [t |-> "null"]                  \* None
JRaise == [t |-> "raise"]                \* the expression raised

EmptyDict == JObj(<<>>)
EmptyList == JArr(<<>>)

\* key in d, d[key], for a dict d
HasKey(d, key) == \E i \in 1..Len(d.kv) : d.kv[i][1] = key
Item(d, key) == d.kv[CHOOSE i \in 1..Len(d.kv) : d.kv[i][1] = key][2]

\* v.get(key, default): AttributeError unless v is a dict
DictGet(v, key, default) ==
    IF v.t = "obj"
    THEN IF HasKey(v, key) THEN Item(v, key) ELSE default
    ELSE JRaise

\* bool(v)
Truthy(v) ==
    CASE v.t = "str"  -> v.s # <<>>
      [] v.t = "num"  -> v.n # 0
      [] v.t = "bool" -> v.b
      [] v.t = "arr"  -> v.a # <<>>
      [] v.t = "obj"  -> v.kv # <<>>
      [] OTHER        -> FALSE

\* a == b: True == 1 and False == 0
NumOf(v) == IF v.t = "bool" THEN (IF v.b THEN 1 ELSE 0) ELSE v.n
PyEq(a, b) ==
    \/ a = b
    \/ a.t \in {"num", "bool"} /\ b.t \in {"num", "bool"} /\ NumOf(a) = NumOf(b)

\* v in a set: TypeError when v is a list or a dict (unhashable)
Hashable(v) == v.t \in {"str", "num", "bool", "null"}
InSet(v, set) == \E e \in set : PyEq(e, v)

\* A list of findings, or the exception that ended the loop.
Ok(items) == [raised |-> FALSE, items |-> items]
Raise == [raised |-> TRUE, items |-> <<>>]

RECURSIVE FlattenSeq(_)
FlattenSeq(seqs) == IF seqs = <<>> THEN <<>> ELSE Head(seqs) \o FlattenSeq(Tail(seqs))
Flatten(seqs) == FlattenSeq(AsSeq(seqs))

\* The results of a loop's iterations, in order: findings of all of them, or
\* the exception of the first that raised.
Chain(results) ==
    LET rs == AsSeq(results)
    IN  IF \E i \in 1..Len(rs) : rs[i].raised
        THEN Raise
        ELSE Ok(Flatten([i \in 1..Len(rs) |-> rs[i].items]))

\* for x in v: a list's elements, a dict's keys, a str's characters;
\* TypeError for a number, a bool or None.
Iterate(v) ==
    CASE v.t = "arr" -> Ok(v.a)
      [] v.t = "obj" -> Ok(AsSeq([i \in 1..Len(v.kv) |-> JStr(v.kv[i][1])]))
      [] v.t = "str" -> Ok(AsSeq([i \in 1..Len(v.s) |-> JStr(<<v.s[i]>>)]))
      [] OTHER       -> Raise

\* The keys the program reads, as the strs they are.
K_visual == <<"v","i","s","u","a","l">>
K_visualType == <<"v","i","s","u","a","l","T","y","p","e">>
K_visualContainerObjects == <<"v","i","s","u","a","l","C","o","n","t","a","i","n","e","r","O","b","j","e","c","t","s">>
K_objects == <<"o","b","j","e","c","t","s">>
K_title == <<"t","i","t","l","e">>
K_subTitle == <<"s","u","b","T","i","t","l","e">>
K_properties == <<"p","r","o","p","e","r","t","i","e","s">>
K_text == <<"t","e","x","t">>
K_expr == <<"e","x","p","r">>
K_Literal == <<"L","i","t","e","r","a","l">>
K_Value == <<"V","a","l","u","e">>
K_query == <<"q","u","e","r","y">>
K_queryState == <<"q","u","e","r","y","S","t","a","t","e">>
K_projections == <<"p","r","o","j","e","c","t","i","o","n","s">>
K_nativeQueryRef == <<"n","a","t","i","v","e","Q","u","e","r","y","R","e","f">>
K_displayName == <<"d","i","s","p","l","a","y","N","a","m","e">>
K_general == <<"g","e","n","e","r","a","l">>
K_paragraphs == <<"p","a","r","a","g","r","a","p","h","s">>
K_textRuns == <<"t","e","x","t","R","u","n","s">>
K_value == <<"v","a","l","u","e">>
K_placeholder == <<"p","l","a","c","e","h","o","l","d","e","r">>
K_header == <<"h","e","a","d","e","r">>
K_label == <<"l","a","b","e","l">>
K_translations == <<"t","r","a","n","s","l","a","t","i","o","n","s">>
K_skip == <<"s","k","i","p">>
K_skip_nqr == <<"s","k","i","p","_","n","q","r">>
K_known_good == <<"k","n","o","w","n","_","g","o","o","d">>

RECURSIVE _get_literal_value(_, _)
_get_literal_value(node, prop_path) ==
    IF prop_path = <<>>
    THEN IF node.t = "str" THEN node ELSE JNull
    ELSE IF node.t = "obj" /\ HasKey(node, Head(prop_path))
    THEN _get_literal_value(Item(node, Head(prop_path)), Tail(prop_path))
    ELSE JNull

LiteralPath(prop) == <<K_properties, prop, K_expr, K_Literal, K_Value>>

-----------------------------------------------------------------------------
(* The visual scanner                                                      *)

\* The categories from the last to the first.
CatsLastFirst ==
    <<"button_text", "header_text", "placeholder", "textbox",
      "missing_displayname", "displayname", "title_subtitle">>

_ALL_CATS ==
    <<"title_subtitle", "displayname", "missing_displayname",
      "textbox", "placeholder", "header_text", "button_text">>

\* A finding on its way to cats[cat].
Found(cat, item) == <<[cat |-> cat, item |-> item]>>

\* Lines 157-162: one obj of a title or subTitle section.
TitleObj(obj, section, target, known_good) ==
    LET val == _get_literal_value(obj, LiteralPath(K_text))
        clean == _strip_quotes(val.s)
    IN  IF /\ Truthy(val)
           /\ clean # <<>>
           /\ ~_is_non_translatable(val.s)
           /\ _is_readable(clean)
           /\ ~InSet(JStr(clean), known_good)
           /\ ~_has_target_chars(clean, target)
        THEN Found("title_subtitle", [text |-> clean, section |-> section])
        ELSE <<>>

\* Lines 156-162: for obj in vco.get(section, []).
TitleSection(vco, section, target, known_good) ==
    LET objs == Iterate(DictGet(vco, section, EmptyList))
    IN  IF objs.raised
        THEN Raise
        ELSE Ok(Flatten([i \in 1..Len(objs.items) |->
                            TitleObj(objs.items[i], section, target, known_good)]))

\* Lines 155-162.
ScanTitles(vco, target, known_good) ==
    Chain(<<TitleSection(vco, K_title, target, known_good),
            TitleSection(vco, K_subTitle, target, known_good)>>)

\* SameDisplayName without the look into skip_nqr.
SameDisplayNameWhateverSkipped(dn, nqr, target, skip_nqr, known_good) ==
    IF dn.t # "str"
    THEN Raise
    ELSE IF /\ ~_is_non_translatable(dn.s)
            /\ _is_readable(dn.s)
            /\ ~InSet(dn, known_good)
            /\ ~_has_target_chars(dn.s, target)
    THEN Ok(Found("displayname", [text |-> dn.s, nativeQueryRef |-> nqr]))
    ELSE Ok(<<>>)

\* Lines 175-177: a displayName equal to the nativeQueryRef.
SameDisplayName(dn, nqr, target, skip_nqr, known_good) ==
    IF dn.t # "str"
    THEN Raise
    ELSE IF /\ ~_is_non_translatable(dn.s)
            /\ _is_readable(dn.s)
            /\ ~InSet(nqr, skip_nqr)
            /\ ~InSet(dn, known_good)
            /\ ~_has_target_chars(dn.s, target)
    THEN Ok(Found("displayname", [text |-> dn.s, nativeQueryRef |-> nqr]))
    ELSE Ok(<<>>)

\* ProjectionFinding without the look into skip_nqr at line 172.
MissingWhateverSkipped(nqr, dn, bucket, target, skip_nqr, known_good) ==
    IF Truthy(nqr) /\ ~Truthy(dn)
    THEN IF ~Hashable(nqr)
         THEN Raise
         ELSE Ok(Found("missing_displayname", [nativeQueryRef |-> nqr, bucket |-> bucket]))
    ELSE IF Truthy(dn) /\ Truthy(nqr) /\ PyEq(dn, nqr)
    THEN SameDisplayName(dn, nqr, target, skip_nqr, known_good)
    ELSE Ok(<<>>)

\* Lines 171-177, nqr and dn being what lines 169-170 read.
ProjectionFinding(nqr, dn, bucket, target, skip_nqr, known_good) ==
    IF Truthy(nqr) /\ ~Truthy(dn)
    THEN IF ~Hashable(nqr)
         THEN Raise
         ELSE IF ~InSet(nqr, skip_nqr)
         THEN Ok(Found("missing_displayname", [nativeQueryRef |-> nqr, bucket |-> bucket]))
         ELSE Ok(<<>>)
    ELSE IF Truthy(dn) /\ Truthy(nqr) /\ PyEq(dn, nqr)
    THEN SameDisplayName(dn, nqr, target, skip_nqr, known_good)
    ELSE Ok(<<>>)

\* Lines 169-177: one projection of a bucket.
Projection(proj, bucket, target, skip_nqr, known_good) ==
    IF proj.t # "obj"
    THEN Raise
    ELSE ProjectionFinding(DictGet(proj, K_nativeQueryRef, JNull),
                           DictGet(proj, K_displayName, JNull),
                           bucket, target, skip_nqr, known_good)

\* A bucket of which only the first projection is looked at.
BucketOfFirstProjection(bucket, bdata, target, skip_nqr, known_good) ==
    IF bdata.t # "obj"
    THEN Ok(<<>>)
    ELSE LET projs == Iterate(DictGet(bdata, K_projections, EmptyList))
         IN  IF projs.raised
             THEN Raise
             ELSE IF projs.items = <<>>
             THEN Ok(<<>>)
             ELSE Projection(projs.items[1], bucket, target, skip_nqr, known_good)

\* Lines 166-177: one bucket of the query state.
Bucket(bucket, bdata, target, skip_nqr, known_good) ==
    IF bdata.t # "obj"
    THEN Ok(<<>>)
    ELSE LET projs == Iterate(DictGet(bdata, K_projections, EmptyList))
         IN  IF projs.raised
             THEN Raise
             ELSE Chain([i \in 1..Len(projs.items) |->
                            Projection(projs.items[i], bucket, target, skip_nqr, known_good)])

\* Lines 164-177.
ScanProjections(visual, target, skip_nqr, known_good) ==
    LET qs == DictGet(DictGet(visual, K_query, EmptyDict), K_queryState, EmptyDict)
    IN  IF qs.t # "obj"
        THEN Raise
        ELSE Chain([i \in 1..Len(qs.kv) |->
                       Bucket(qs.kv[i][1], qs.kv[i][2], target, skip_nqr, known_good)])

\* Lines 183-186 and 189-192: one text run.
TextRun(run, target) ==
    LET value == DictGet(run, K_value, JStr(<<>>))
        v == Strip(value.s)
    IN  IF value.t # "str"
        THEN Raise
        ELSE IF /\ v # <<>>
                /\ _is_readable(v)
                /\ ~_is_non_translatable(v)
                /\ ~_has_target_chars(v, target)
        THEN Ok(Found("textbox", [text |-> v]))
        ELSE Ok(<<>>)

\* Lines 182-186 and 188-192: for run in para.get("textRuns", []).
Paragraph(para, target) ==
    LET runs == Iterate(DictGet(para, K_textRuns, EmptyList))
    IN  IF runs.raised
        THEN Raise
        ELSE Chain([i \in 1..Len(runs.items) |-> TextRun(runs.items[i], target)])

\* for para in paragraphs, for the list found at either place.
Paragraphs(paragraphs, target) ==
    LET paras == Iterate(paragraphs)
    IN  IF paras.raised
        THEN Raise
        ELSE Chain([i \in 1..Len(paras.items) |-> Paragraph(paras.items[i], target)])

\* A scan that does not look under objects.general.
NoGeneralParagraphs(objects, target) == Ok(<<>>)

\* Lines 180-186: for gen in objects.get("general", []).
GeneralParagraphs(objects, target) ==
    LET gens == Iterate(DictGet(objects, K_general, EmptyList))
    IN  IF gens.raised
        THEN Raise
        ELSE Chain([i \in 1..Len(gens.items) |->
                Paragraphs(DictGet(DictGet(gens.items[i], K_properties, EmptyDict),
                                   K_paragraphs, EmptyList), target)])

\* ScanTextbox whatever the type of the visual.
ScanTextboxOfAnyType(visual, visual_type, objects, target) ==
    Chain(<<GeneralParagraphs(objects, target),
            Paragraphs(DictGet(visual, K_paragraphs, EmptyList), target)>>)

\* Lines 179-192.
ScanTextbox(visual, visual_type, objects, target) ==
    IF PyEq(visual_type, JStr(<<"t","e","x","t","b","o","x">>))
    THEN Chain(<<GeneralParagraphs(objects, target),
                 Paragraphs(DictGet(visual, K_paragraphs, EmptyList), target)>>)
    ELSE Ok(<<>>)

\* Lines 198-203, 211-216 and 224-229: the literal of property prop of obj.
LiteralObj(cat, obj, prop, item_extra, target) ==
    LET val == _get_literal_value(obj, LiteralPath(prop))
        clean == _strip_quotes(val.s)
    IN  IF /\ Truthy(val)
           /\ clean # <<>>
           /\ _is_readable(clean)
           /\ ~_is_non_translatable(val.s)
           /\ ~_has_target_chars(clean, target)
        THEN Found(cat, [k \in {"text"} \cup DOMAIN item_extra |->
                            IF k = "text" THEN clean ELSE item_extra[k]])
        ELSE <<>>

NoExtra == [k \in {} |-> ""]

\* Lines 194-203: objects.values() raises unless objects is a dict.
ScanPlaceholders(objects, target) ==
    IF objects.t # "obj"
    THEN Raise
    ELSE Ok(Flatten([i \in 1..Len(objects.kv) |->
            LET section_items == objects.kv[i][2]
            IN  IF section_items.t # "arr"
                THEN <<>>
                ELSE Flatten([j \in 1..Len(section_items.a) |->
                        LiteralObj("placeholder", section_items.a[j], K_placeholder,
                                   NoExtra, target)])]))

\* Lines 205-216.
ScanHeaders(objects, target) ==
    IF objects.t # "obj"
    THEN Raise
    ELSE Ok(Flatten([i \in 1..Len(objects.kv) |->
            LET section_items == objects.kv[i][2]
            IN  IF objects.kv[i][1] # K_header \/ section_items.t # "arr"
                THEN <<>>
                ELSE Flatten([j \in 1..Len(section_items.a) |->
                        LiteralObj("header_text", section_items.a[j], K_text,
                                   NoExtra, target)])]))

\* Lines 223-229: for prop in ("text", "label").
ButtonObj(obj, target) ==
    LiteralObj("button_text", obj, K_text, [property |-> K_text], target)
    \o LiteralObj("button_text", obj, K_label, [property |-> K_label], target)

\* A scan of buttons that leaves the header section to the header scan.
ScanButtonsNotHeader(visual_type, objects, target) ==
    IF \/ PyEq(visual_type, JStr(<<"a","c","t","i","o","n","B","u","t","t","o","n">>))
       \/ PyEq(visual_type, JStr(<<"b","u","t","t","o","n">>))
    THEN IF objects.t # "obj"
         THEN Raise
         ELSE Ok(Flatten([i \in 1..Len(objects.kv) |->
                 LET section_items == objects.kv[i][2]
                 IN  IF objects.kv[i][1] = K_header \/ section_items.t # "arr"
                     THEN <<>>
                     ELSE Flatten([j \in 1..Len(section_items.a) |->
                             ButtonObj(section_items.a[j], target)])]))
    ELSE Ok(<<>>)

\* Lines 218-229.
ScanButtons(visual_type, objects, target) ==
    IF \/ PyEq(visual_type, JStr(<<"a","c","t","i","o","n","B","u","t","t","o","n">>))
       \/ PyEq(visual_type, JStr(<<"b","u","t","t","o","n">>))
    THEN IF objects.t # "obj"
         THEN Raise
         ELSE Ok(Flatten([i \in 1..Len(objects.kv) |->
                 LET section_items == objects.kv[i][2]
                 IN  IF section_items.t # "arr"
                     THEN <<>>
                     ELSE Flatten([j \in 1..Len(section_items.a) |->
                             ButtonObj(section_items.a[j], target)])]))
    ELSE Ok(<<>>)

\* A file as open() and json.load() find it: the document, or the exception.
JsonFile(doc) == [kind |-> "json", doc |-> doc]
FailingFile(exception) == [kind |-> exception]

\* An except clause for the decode error alone.
CatchesDecodeErrorOnly == {"JSONDecodeError"}

\* Line 147: the exceptions scan_visual catches.
ScanVisualCatches == {"JSONDecodeError", "UnicodeDecodeError", "FileNotFoundError"}

\* cats[c], from the findings in the order they were appended
CatItems(found, c) ==
    LET mine == SelectSeq(found, LAMBDA f : f.cat = c)
    IN  AsSeq([i \in 1..Len(mine) |-> mine[i].item])

\* Lines 134-142, with each list as the scan leaves it.
Cats(found) ==
    [title_subtitle |-> CatItems(found, "title_subtitle"),
     displayname |-> CatItems(found, "displayname"),
     missing_displayname |-> CatItems(found, "missing_displayname"),
     textbox |-> CatItems(found, "textbox"),
     placeholder |-> CatItems(found, "placeholder"),
     header_text |-> CatItems(found, "header_text"),
     button_text |-> CatItems(found, "button_text")]

EmptyCats == Cats(<<>>)

\* Line 231: cats as the appends left it, unless one of them raised.
ScanResult(found) ==
    IF found.raised
    THEN [raised |-> TRUE, cats |-> EmptyCats]
    ELSE [raised |-> FALSE, cats |-> Cats(found.items)]

\* Lines 154-229, vco and objects being what lines 152-153 read.
ScanSections(visual, visual_type, vco, objects, target, skip_nqr, known_good) ==
    ScanResult(Chain(<<ScanTitles(vco, target, known_good),
                       ScanProjections(visual, target, skip_nqr, known_good),
                       ScanTextbox(visual, visual_type, objects, target),
                       ScanPlaceholders(objects, target),
                       ScanHeaders(objects, target),
                       ScanButtons(visual_type, objects, target)>>))

\* Lines 152-229, visual and visual_type being what lines 150-151 read.
ScanVisualObject(visual, visual_type, target, skip_nqr, known_good) ==
    IF visual.t # "obj"
    THEN [raised |-> TRUE, cats |-> EmptyCats]
    ELSE ScanSections(visual, visual_type,
                      DictGet(visual, K_visualContainerObjects, EmptyDict),
                      DictGet(visual, K_objects, EmptyDict),
                      target, skip_nqr, known_good)

\* Lines 150-229, for the parsed document.
ScanDocument(data, target, skip_nqr, known_good) ==
    IF data.t # "obj"
    THEN [raised |-> TRUE, cats |-> EmptyCats]
    ELSE ScanVisualObject(DictGet(data, K_visual, EmptyDict),
                          DictGet(data, K_visualType, JStr(<<>>)),
                          target, skip_nqr, known_good)

\* scan_visual on the file's content.
scan_visual(file, target, skip_nqr, known_good) ==
    IF file.kind = "json"
    THEN ScanDocument(file.doc, target, skip_nqr, known_good)
    ELSE IF file.kind \in ScanVisualCatches
    THEN [raised |-> FALSE, cats |-> EmptyCats]
    ELSE [raised |-> TRUE, cats |-> EmptyCats]

-----------------------------------------------------------------------------
(* Paths, glob and sorted                                                  *)

\* The characters of the model's paths, by code point.
PathChars ==
    <<"-", ".", "/", "0","1","2","3","4","5","6","7","8","9",
      "A","B","C","D","E","F","G","H","I","J","K","L","M",
      "N","O","P","Q","R","S","T","U","V","W","X","Y","Z", "_",
      "a","b","c","d","e","f","g","h","i","j","k","l","m",
      "n","o","p","q","r","s","t","u","v","w","x","y","z">>

CodePoint(c) == CHOOSE i \in 1..Len(PathChars) : PathChars[i] = c

\* a < b, for strs
StrLess(a, b) ==
    \E i \in 1..(Len(a) + 1) :
        /\ i <= Len(b)
        /\ SubSeq(a, 1, i - 1) = SubSeq(b, 1, i - 1)
        /\ i = Len(a) + 1 \/ CodePoint(a[i]) < CodePoint(b[i])

\* An insertion that puts every path first.
InsertFirst(x, s) == <<x>> \o s

RECURSIVE InsertSorted(_, _)
InsertSorted(x, s) ==
    IF s = <<>> THEN <<x>>
    ELSE IF StrLess(x, Head(s)) THEN <<x>> \o s
    ELSE <<Head(s)>> \o InsertSorted(x, Tail(s))

\* The paths as glob listed them.
AsListed(paths) == paths

\* sorted(paths)
RECURSIVE sorted(_)
sorted(paths) ==
    IF paths = <<>> THEN <<>>
    ELSE InsertSorted(paths[Len(paths)], sorted(SubSeq(paths, 1, Len(paths) - 1)))

\* os.path.join(a, b)
PathJoin(a, b) == a \o <<"/">> \o b

LastSlash(p) ==
    IF "/" \in Range(p)
    THEN CHOOSE i \in 1..Len(p) : p[i] = "/" /\ \A j \in (i + 1)..Len(p) : p[j] # "/"
    ELSE 0

\* os.path.dirname, os.path.basename
Dirname(p) == SubSeq(p, 1, LastSlash(p) - 1)
Basename(p) == SubSeq(p, LastSlash(p) + 1, Len(p))

\* os.path.relpath(fp, pages_dir), for a path glob built under pages_dir
Relpath(fp, pages_dir) == SubSeq(fp, Len(pages_dir) + 2, Len(fp))

PagesDir == <<"r">>
VisualJson == <<"v","i","s","u","a","l",".","j","s","o","n">>
PageJson == <<"p","a","g","e",".","j","s","o","n">>

\* The paths glob may return for <pages_dir>/**/visual.json and for
\* <pages_dir>/*/page.json, and the file behind a path.
VisualPaths == {PathJoin(PathJoin(PagesDir, d), VisualJson) : d \in DOMAIN visualFiles}
PagePaths == {PathJoin(PathJoin(PagesDir, d), PageJson) : d \in DOMAIN pageFiles}
VisualFileAt(fp) == visualFiles[Relpath(Dirname(fp), PagesDir)]
PageFileAt(fp) == pageFiles[Relpath(Dirname(fp), PagesDir)]

\* glob.glob returns the matches in an order of the file system's choosing.
Listings(paths) ==
    {l \in [1..Cardinality(paths) -> paths] :
        \A i, j \in 1..Cardinality(paths) : i # j => l[i] # l[j]}

-----------------------------------------------------------------------------
(* Page names and the orchestrator                                         *)

\* PageFile without the look into known_good at line 245.
PageFileWhateverKnown(fp, target, known_good) ==
    LET file == PageFileAt(fp)
        dn == DictGet(file.doc, K_displayName, JStr(<<>>))
    IN  IF file.kind # "json"
        THEN Ok(<<>>)
        ELSE IF dn.t = "raise"
        THEN Raise
        ELSE IF ~Truthy(dn)
        THEN Ok(<<>>)
        ELSE IF dn.t # "str"
        THEN Raise
        ELSE IF /\ _is_readable(dn.s)
                /\ ~_is_non_translatable(dn.s)
                /\ ~_has_target_chars(dn.s, target)
        THEN Ok(<<[page_id |-> Basename(Dirname(fp)), displayName |-> dn.s]>>)
        ELSE Ok(<<>>)

\* Lines 238-249: one page.json.
PageFile(fp, target, known_good) ==
    LET file == PageFileAt(fp)
        dn == DictGet(file.doc, K_displayName, JStr(<<>>))
    IN  IF file.kind # "json"
        THEN Ok(<<>>)
        ELSE IF dn.t = "raise"
        THEN Raise
        ELSE IF ~Truthy(dn)
        THEN Ok(<<>>)
        ELSE IF dn.t # "str"
        THEN Raise
        ELSE IF /\ _is_readable(dn.s)
                /\ ~_is_non_translatable(dn.s)
                /\ ~InSet(dn, known_good)
                /\ ~_has_target_chars(dn.s, target)
        THEN Ok(<<[page_id |-> Basename(Dirname(fp)), displayName |-> dn.s]>>)
        ELSE Ok(<<>>)

\* scan_page_names, glob having returned listing
scan_page_names(listing, target, known_good) ==
    LET fps == sorted(listing)
    IN  Chain([i \in 1..Len(fps) |-> PageFile(fps[i], target, known_good)])

\* Line 279 letting every file in.
EveryFileKept(cats) == TRUE

\* any(cats.values())
AnyFinding(cats) == \E c \in DOMAIN cats : cats[c] # <<>>

\* Line 280: {"file": relpath, **cats}
VisualEntry(fp, cats) ==
    [file |-> Relpath(fp, PagesDir),
     title_subtitle |-> cats.title_subtitle,
     displayname |-> cats.displayname,
     missing_displayname |-> cats.missing_displayname,
     textbox |-> cats.textbox,
     placeholder |-> cats.placeholder,
     header_text |-> cats.header_text,
     button_text |-> cats.button_text]

\* Lines 277-278: each path in the order given, with what scan_visual
\* makes of its file.
ScannedVisuals(fps, target, skip_nqr, known_good) ==
    AsSeq([i \in 1..Len(fps) |->
              [fp |-> fps[i],
               res |-> scan_visual(VisualFileAt(fps[i]), target, skip_nqr, known_good)]])

\* Lines 279-280: the entries of the files that have findings.
VisualEntries(kept) ==
    AsSeq([i \in 1..Len(kept) |-> VisualEntry(kept[i].fp, kept[i].res.cats)])

\* Lines 276-281, scanned being the loop's iterations and pages what
\* scan_page_names returns.
ScanAllResult(scanned, pages) ==
    IF (\E i \in 1..Len(scanned) : scanned[i].res.raised) \/ pages.raised
    THEN [raised |-> TRUE, visuals |-> <<>>, pages |-> <<>>]
    ELSE [raised |-> FALSE,
          visuals |-> VisualEntries(SelectSeq(scanned, LAMBDA e : AnyFinding(e.res.cats))),
          pages |-> pages.items]

\* scan_all, glob having returned listing and then page_listing
scan_all(listing, page_listing, target, skip_nqr, known_good) ==
    ScanAllResult(ScannedVisuals(sorted(listing), target, skip_nqr, known_good),
                  scan_page_names(page_listing, target, known_good))

-----------------------------------------------------------------------------
(* Report text: a sequence of lines ("\n".join), each line the sequence of *)
(* the pieces its f-string puts together.                                  *)

Lit(s) == [lit |-> s]                    \* literal text of the program
Chars(s) == [chars |-> s]                \* a str of the input
Number(n) == [number |-> n]              \* an int, in decimal
Tenths(n) == [tenths |-> n]              \* a float under :.1f, in tenths
Repr(v) == IF v.t = "str" THEN Chars(v.s) ELSE [repr |-> v]   \* f"{v}"

_CAT_LABELS ==
    [c \in Range(_ALL_CATS) |->
        CASE c = "title_subtitle"      -> "Title/Subtitle"
          [] c = "displayname"         -> "DisplayName (no target-lang chars)"
          [] c = "missing_displayname" -> "Missing displayName"
          [] c = "textbox"             -> "Textbox content"
          [] c = "placeholder"         -> "Placeholder text"
          [] c = "header_text"         -> "Header/label text"
          [] c = "button_text"         -> "Button text"]

Rule(char) == <<Lit(char), Lit("*"), Number(55)>>    \* char * 55
BlankLine == <<>>

\* Lines 294-295.
PageLine(p) == <<Lit("  "), Chars(p.page_id), Lit(": \""), Chars(p.displayName), Lit("\"")>>

\* Lines 308-316: the line of one item; none for an item with neither key.
ItemLines(item) ==
    IF "text" \in DOMAIN item
    THEN LET extra ==
                 IF "section" \in DOMAIN item
                 THEN <<Lit("  ["), Chars(item.section), Lit("]")>>
                 ELSE IF "nativeQueryRef" \in DOMAIN item /\ Truthy(item.nativeQueryRef)
                 THEN <<Lit("  (nqr: "), Repr(item.nativeQueryRef), Lit(")")>>
                 ELSE <<>>
         IN  << <<Lit("    - \""), Chars(item.text), Lit("\"")>> \o extra >>
    ELSE IF "nativeQueryRef" \in DOMAIN item
    THEN << <<Lit("    - nqr: \""), Repr(item.nativeQueryRef), Lit("\"  [bucket: "),
              Chars(IF "bucket" \in DOMAIN item THEN item.bucket ELSE <<>>), Lit("]")>> >>
    ELSE <<>>

\* vf.get(cat, [])
EntryItems(vf, cat) == IF cat \in DOMAIN vf THEN vf[cat] ELSE <<>>

\* Lines 301-316: the lines of one category of one file.
CategoryLines(vf, cat) ==
    LET items == EntryItems(vf, cat)
    IN  IF items = <<>>
        THEN <<>>
        ELSE << <<Lit("  "), Lit(_CAT_LABELS[cat]), Lit(" ("), Number(Len(items)), Lit("):")>> >>
             \o Flatten([i \in 1..Len(items) |-> ItemLines(items[i])])

\* Lines 300-320.
FileLines(vf) ==
    LET file_lines == Flatten([c \in 1..Len(_ALL_CATS) |-> CategoryLines(vf, _ALL_CATS[c])])
    IN  IF file_lines = <<>>
        THEN <<>>
        ELSE << <<Lit("File: "), Chars(vf.file)>> >> \o file_lines \o <<BlankLine>>

RECURSIVE SumTuple(_)
SumTuple(s) == IF s = <<>> THEN 0 ELSE Head(s) + SumTuple(Tail(s))
SumSeq(s) == SumTuple(AsSeq(s))

\* A total that counts the files that have the category.
FilesWithCategory(visuals, cat) ==
    Cardinality({i \in 1..Len(visuals) : EntryItems(visuals[i], cat) # <<>>})

\* totals[cat] at line 322
CategoryTotal(visuals, cat) ==
    SumSeq([i \in 1..Len(visuals) |-> Len(EntryItems(visuals[i], cat))])

format_findings(result) ==
    LET visuals == result.visuals
        pages == result.pages
        total_all == SumSeq([c \in 1..Len(_ALL_CATS) |-> CategoryTotal(visuals, _ALL_CATS[c])])
                     + Len(pages)
    IN  IF visuals = <<>> /\ pages = <<>>
        THEN << <<Lit("No suspected untranslated content found.")>> >>
        ELSE << <<Lit("TRANSLATION AUDIT "), Chars(<<"U+2014">>), Lit(" DETAILED FINDINGS")>>,
                Rule("="), BlankLine >>
             \o (IF pages # <<>>
                 THEN << <<Lit("UNTRANSLATED PAGE NAMES ("), Number(Len(pages)), Lit("):")>> >>
                      \o AsSeq([i \in 1..Len(pages) |-> PageLine(pages[i])])
                      \o <<BlankLine>>
                 ELSE <<>>)
             \o Flatten([i \in 1..Len(visuals) |-> FileLines(visuals[i])])
             \o << Rule("-"), <<Lit("SUMMARY:")>> >>
             \o (IF pages # <<>>
                 THEN << <<Lit("  Page names: "), Number(Len(pages))>> >>
                 ELSE <<>>)
             \o Flatten([c \in 1..Len(_ALL_CATS) |->
                    IF CategoryTotal(visuals, _ALL_CATS[c]) # 0
                    THEN << <<Lit("  "), Lit(_CAT_LABELS[_ALL_CATS[c]]), Lit(": "),
                              Number(CategoryTotal(visuals, _ALL_CATS[c]))>> >>
                    ELSE <<>>])
             \o << <<Lit("  TOTAL: "), Number(total_all)>>, BlankLine >>

-----------------------------------------------------------------------------
(* The coverage validator                                                  *)

\* CountProjection counting a displayName only when it has a value.
CountNamedProjection(proj) ==
    IF proj.t # "obj"
    THEN [raised |-> TRUE, total |-> 0, with_dn |-> 0]
    ELSE IF Truthy(DictGet(proj, K_nativeQueryRef, JNull))
    THEN [raised |-> FALSE, total |-> 1,
          with_dn |-> IF Truthy(DictGet(proj, K_displayName, JNull)) THEN 1 ELSE 0]
    ELSE [raised |-> FALSE, total |-> 0, with_dn |-> 0]

\* Lines 353-357: what one projection adds to total_proj and proj_with_dn.
CountProjection(proj) ==
    IF proj.t # "obj"
    THEN [raised |-> TRUE, total |-> 0, with_dn |-> 0]
    ELSE IF Truthy(DictGet(proj, K_nativeQueryRef, JNull))
    THEN [raised |-> FALSE, total |-> 1,
          with_dn |-> IF HasKey(proj, K_displayName) THEN 1 ELSE 0]
    ELSE [raised |-> FALSE, total |-> 0, with_dn |-> 0]

\* The sum of the counts of a loop's iterations, or that one raised.
AddCounts(counts) ==
    LET cs == AsSeq(counts)
    IN  [raised |-> \E i \in 1..Len(cs) : cs[i].raised,
         total |-> SumSeq([i \in 1..Len(cs) |-> cs[i].total]),
         with_dn |-> SumSeq([i \in 1..Len(cs) |-> cs[i].with_dn])]

NoCount == [raised |-> FALSE, total |-> 0, with_dn |-> 0]
CountRaise == [raised |-> TRUE, total |-> 0, with_dn |-> 0]

\* Lines 352-357: one bucket.
CountBucket(bucket) ==
    IF bucket.t # "obj"
    THEN NoCount
    ELSE LET projs == Iterate(DictGet(bucket, K_projections, EmptyList))
         IN  IF projs.raised
             THEN CountRaise
             ELSE AddCounts([i \in 1..Len(projs.items) |-> CountProjection(projs.items[i])])

\* Lines 345-357: one visual.json.
CountFile(file) ==
    IF file.kind # "json"
    THEN NoCount
    ELSE LET qs == DictGet(DictGet(DictGet(file.doc, K_visual, EmptyDict),
                                   K_query, EmptyDict), K_queryState, EmptyDict)
         IN  IF qs.t # "obj"
             THEN CountRaise
             ELSE AddCounts([i \in 1..Len(qs.kv) |-> CountBucket(qs.kv[i][2])])

\* Lines 342-357, glob having returned listing (which is not sorted here).
CountProjections(listing) ==
    AddCounts([i \in 1..Len(listing) |-> CountFile(VisualFileAt(listing[i]))])

\* An issue count that leaves the page names out.
IssueCountOfVisuals(result) ==
    SumSeq([i \in 1..Len(result.visuals) |->
               SumSeq([c \in 1..Len(_ALL_CATS) |->
                          Len(EntryItems(result.visuals[i], _ALL_CATS[c]))])])

\* Lines 359-362.
IssueCount(result) ==
    Len(result.pages)
    + SumSeq([i \in 1..Len(result.visuals) |->
                 SumSeq([c \in 1..Len(_ALL_CATS) |->
                            Len(EntryItems(result.visuals[i], _ALL_CATS[c]))])])

\* Line 364 under :.1f (line 371): the percentage in tenths, the tie to even.
CoverageTenths(proj_with_dn, total_proj) ==
    IF total_proj = 0
    THEN 0
    ELSE LET n == proj_with_dn * 1000
             q == n \div total_proj
             r == n % total_proj
         IN  IF 2 * r < total_proj THEN q
             ELSE IF 2 * r > total_proj THEN q + 1
             ELSE IF q % 2 = 0 THEN q ELSE q + 1

\* A verdict that wants every projection named as well.
VerdictByCoverage(issue_count, coverage) ==
    IF issue_count = 0 /\ coverage = 1000 THEN "PASS" ELSE "FAIL"

\* Line 365; cov is in scope there and has no part in it.
Verdict(issue_count, coverage) == IF issue_count = 0 THEN "PASS" ELSE "FAIL"

\* _validate_coverage, the three globs having returned listing, page_listing
\* and count_listing
\* Lines 359-380, result being what scan_all returned and counts the sums of
\* lines 342-357.  The result stays with the text made from it.
CoverageReport(result, counts) ==
    LET issue_count == IssueCount(result)
        cov == CoverageTenths(counts.with_dn, counts.total)
        verdict == Verdict(issue_count, cov)
    IN  IF result.raised \/ counts.raised
        THEN [raised |-> TRUE, text |-> <<>>, result |-> result]
        ELSE [raised |-> FALSE,
              result |-> result,
              text |->
                << <<Lit("TRANSLATION COVERAGE VALIDATION")>>, Rule("="), BlankLine,
                   <<Lit("Projections total: "), Number(counts.total)>>,
                   <<Lit("Projections with displayName: "), Number(counts.with_dn),
                     Lit(" ("), Tenths(cov), Lit("%)")>>,
                   <<Lit("Projections missing displayName: "),
                     Number(counts.total - counts.with_dn)>>,
                   BlankLine,
                   <<Lit("Total suspected untranslated strings: "), Number(issue_count)>>,
                   BlankLine,
                   <<Lit("VERDICT: "), Lit(verdict)>>,
                   BlankLine,
                   IF verdict = "FAIL"
                   THEN <<Lit("Run scan_english_remaining for details.")>>
                   ELSE <<Lit("No suspected untranslated content found!")>> >>]

\* _validate_coverage, the three globs having returned listing, page_listing
\* and count_listing
_validate_coverage(listing, page_listing, count_listing, target, skip_nqr, known_good) ==
    CoverageReport(scan_all(listing, page_listing, target, skip_nqr, known_good),
                   CountProjections(count_listing))

-----------------------------------------------------------------------------
(* Exceptions loading                                                      *)

ExcPath == <<"e","x",".","j","s","o","n">>
AbsentFile == [kind |-> "absent"]        \* no file at the path

\* key in data (lines 105, 107, 109, 111) is a TypeError for a number, a bool
\* or None; else membership in a dict's keys or a list's elements, or the
\* substring test of a str.
KeyInRaises(data) == data.t \notin {"obj", "arr", "str"}
KeyIn(data, key) ==
    CASE data.t = "obj" -> HasKey(data, key)
      [] data.t = "arr" -> \E i \in 1..Len(data.a) : data.a[i] = JStr(key)
      [] data.t = "str" -> Contains(data.s, key)

\* set.update(iterable): the elements, or TypeError.
UpdateFrom(v) ==
    LET it == Iterate(v)
    IN  IF it.raised \/ \E i \in 1..Len(it.items) : ~Hashable(it.items[i])
        THEN [raised |-> TRUE, set |-> {}]
        ELSE [raised |-> FALSE, set |-> Range(it.items)]

\* What the if at line 105, 107, 109 or 111 adds to its set.
ExceptionsPart(data, key) ==
    IF KeyInRaises(data)
    THEN [raised |-> TRUE, set |-> {}]
    ELSE IF ~KeyIn(data, key)
    THEN [raised |-> FALSE, set |-> {}]
    ELSE IF data.t # "obj"
    THEN [raised |-> TRUE, set |-> {}]     \* data[key] of a list or a str
    ELSE IF key # K_translations
    THEN UpdateFrom(Item(data, key))
    ELSE IF Item(data, key).t # "obj"
    THEN [raised |-> TRUE, set |-> {}]     \* .values()
    ELSE LET kv == Item(data, key).kv
         IN  UpdateFrom(JArr(AsSeq([i \in 1..Len(kv) |-> kv[i][2]])))

NoExceptions == [raised |-> FALSE, skip_nqr |-> {}, known_good |-> {}]

\* ExceptionSets with "skip" left out of skip_nqr.
ExceptionSetsWithoutSkip(translations, skip, skip_nqr, known_good) ==
    IF translations.raised \/ skip.raised \/ skip_nqr.raised \/ known_good.raised
    THEN [raised |-> TRUE, skip_nqr |-> {}, known_good |-> {}]
    ELSE [raised |-> FALSE,
          skip_nqr |-> skip_nqr.set,
          known_good |-> translations.set \cup known_good.set]

\* Lines 105-112 and 114: the two sets, unless an update raised.
ExceptionSets(translations, skip, skip_nqr, known_good) ==
    IF translations.raised \/ skip.raised \/ skip_nqr.raised \/ known_good.raised
    THEN [raised |-> TRUE, skip_nqr |-> {}, known_good |-> {}]
    ELSE [raised |-> FALSE,
          skip_nqr |-> skip.set \cup skip_nqr.set,
          known_good |-> translations.set \cup known_good.set]

\* load_exceptions keeping the sets it once read instead of reading the
\* file again.
CachedExceptions(file_path) ==
    IF trace.exc # NoExceptions
    THEN trace.exc
    ELSE IF file_path = <<>> \/ excFile.kind = "absent"
    THEN NoExceptions
    ELSE IF excFile.kind # "json"
    THEN NoExceptions
    ELSE ExceptionSets(ExceptionsPart(excFile.doc, K_translations),
                       ExceptionsPart(excFile.doc, K_skip),
                       ExceptionsPart(excFile.doc, K_skip_nqr),
                       ExceptionsPart(excFile.doc, K_known_good))

\* Lines 93-114: the file is opened and read at every call.
load_exceptions(file_path) ==
    IF file_path = <<>> \/ excFile.kind = "absent"
    THEN NoExceptions
    ELSE IF excFile.kind # "json"
    THEN NoExceptions
    ELSE ExceptionSets(ExceptionsPart(excFile.doc, K_translations),
                       ExceptionsPart(excFile.doc, K_skip),
                       ExceptionsPart(excFile.doc, K_skip_nqr),
                       ExceptionsPart(excFile.doc, K_known_good))

-----------------------------------------------------------------------------
(* scan_missing_displaynames                                               *)

\* Lines 431-436: one projection; the finding's line, if it is one.
MissingProjection(fp, bucket, proj, skip_nqr) ==
    LET nqr == DictGet(proj, K_nativeQueryRef, JNull)
    IN  IF proj.t # "obj"
        THEN Raise
        ELSE IF Truthy(nqr) /\ ~HasKey(proj, K_displayName)
        THEN IF ~Hashable(nqr)
             THEN Raise
             ELSE IF ~InSet(nqr, skip_nqr)
             THEN Ok(<< <<Lit("  "), Chars(Relpath(fp, PagesDir)), Lit("  nqr: \""), Repr(nqr),
                          Lit("\"  [bucket: "), Chars(bucket), Lit("]")>> >>)
             ELSE Ok(<<>>)
        ELSE Ok(<<>>)

\* Lines 428-436: one bucket.
MissingBucket(fp, bucket, bdata, skip_nqr) ==
    IF bdata.t # "obj"
    THEN Ok(<<>>)
    ELSE LET projs == Iterate(DictGet(bdata, K_projections, EmptyList))
         IN  IF projs.raised
             THEN Raise
             ELSE Chain([i \in 1..Len(projs.items) |->
                            MissingProjection(fp, bucket, projs.items[i], skip_nqr)])

\* Lines 421-436: one visual.json.
MissingFile(fp, skip_nqr) ==
    LET file == VisualFileAt(fp)
        qs == DictGet(DictGet(DictGet(file.doc, K_visual, EmptyDict),
                              K_query, EmptyDict), K_queryState, EmptyDict)
    IN  IF file.kind # "json"
        THEN Ok(<<>>)
        ELSE IF qs.t # "obj"
        THEN Raise
        ELSE Chain([i \in 1..Len(qs.kv) |->
                       MissingBucket(fp, qs.kv[i][1], qs.kv[i][2], skip_nqr)])

\* Lines 437-439.
MissingReport(findings) ==
    IF findings.raised
    THEN [raised |-> TRUE, text |-> <<>>]
    ELSE IF findings.items # <<>>
    THEN [raised |-> FALSE,
          text |-> << <<Lit("MISSING DISPLAYNAME: "), Number(Len(findings.items)),
                        Lit(" projections")>>, BlankLine >> \o findings.items]
    ELSE [raised |-> FALSE,
          text |-> << <<Lit("All projections have displayName overrides.")>> >>]

\* Lines 420-436: the files in the order given.
MissingFiles(fps, skip_nqr) ==
    Chain([i \in 1..Len(fps) |-> MissingFile(fps[i], skip_nqr)])

\* Lines 418-439, load_exceptions having returned skip_nqr and glob listing.
MissingDisplaynames(listing, skip_nqr) ==
    MissingReport(MissingFiles(sorted(listing), skip_nqr))

-----------------------------------------------------------------------------
(* The tools                                                               *)

Raised == [raised |-> TRUE, text |-> <<>>]
NoScan == [raised |-> FALSE, visuals |-> <<>>, pages |-> <<>>]

\* What a call leaves in trace: the exception sets and the target it used,
\* and what scan_all returned to it.
Trace(exc, target, result) == [exc |-> exc, target |-> target, result |-> result]

Called(tool, result, tr) ==
    /\ call' = tool
    /\ out' = result
    /\ trace' = tr
    /\ prev' = IF call = "none" THEN prev ELSE [call |-> call, out |-> out]
    /\ UNCHANGED <<languageTable, visualFiles, pageFiles, excFile, args>>

\* Lines 404-408, load_exceptions having returned exc and scan_all result.
EnglishRemaining(exc, target, result) ==
    IF exc.raised
    THEN Called("scan_english_remaining", Raised, Trace(exc, target, NoScan))
    ELSE Called("scan_english_remaining",
                IF result.raised
                THEN Raised
                ELSE [raised |-> FALSE, text |-> format_findings(result)],
                Trace(exc, target, result))

\* Lines 397-408.
ScanEnglishRemaining(exc, target, listing, page_listing) ==
    EnglishRemaining(exc, target,
                     scan_all(listing, page_listing, target, exc.skip_nqr, exc.known_good))

scan_english_remaining ==
    /\ \E listing \in Listings(VisualPaths), page_listing \in Listings(PagePaths) :
          ScanEnglishRemaining(load_exceptions(args.exceptions_file),
                               _resolve_target(args.target_language),
                               listing, page_listing)
    /\ UNCHANGED <<pending, openFiles, _state, servers>>

\* Lines 411-439.
ScanMissingDisplaynames(exc, listing) ==
    Called("scan_missing_displaynames",
           IF exc.raised THEN Raised ELSE MissingDisplaynames(listing, exc.skip_nqr),
           Trace(exc, {}, NoScan))

scan_missing_displaynames ==
    /\ \E listing \in Listings(VisualPaths) :
          ScanMissingDisplaynames(load_exceptions(args.exceptions_file), listing)
    /\ UNCHANGED <<pending, openFiles, _state, servers>>

\* Lines 451-453, load_exceptions having returned exc and _validate_coverage
\* report.
TranslationCoverage(exc, target, report) ==
    IF exc.raised
    THEN Called("validate_translation_coverage", Raised, Trace(exc, target, NoScan))
    ELSE Called("validate_translation_coverage",
                [raised |-> report.raised, text |-> report.text],
                Trace(exc, target, report.result))

\* Lines 442-453.
ValidateTranslationCoverage(exc, target, listing, page_listing, count_listing) ==
    TranslationCoverage(exc, target,
                        _validate_coverage(listing, page_listing, count_listing, target,
                                           exc.skip_nqr, exc.known_good))

validate_translation_coverage ==
    /\ \E listing \in Listings(VisualPaths), page_listing \in Listings(PagePaths),
          count_listing \in Listings(VisualPaths) :
          ValidateTranslationCoverage(load_exceptions(args.exceptions_file),
                                      _resolve_target(args.target_language),
                                      listing, page_listing, count_listing)
    /\ UNCHANGED <<pending, openFiles, _state, servers>>

-----------------------------------------------------------------------------
(* powerbi_modeling_mcp/connection.py: the connection state                *)

\* class ConnectionMode
ConnectionMode == {"local", "fabric", "pbip", "disconnected"}

\* The dataclass ConnectionState.  A server is the place of its object in
\* servers, a database or a model a positive number, None is 0; a str is a
\* sequence of characters.
ConnectionState(mode, server, database, model, port, connection_string, pbip_folder, database_name) ==
    [mode |-> mode, server |-> server, database |-> database, model |-> model,
     port |-> port, connection_string |-> connection_string,
     pbip_folder |-> pbip_folder, database_name |-> database_name]

-----------------------------------------------------------------------------
(* The inputs: texts, documents, directories                               *)

T_OK == <<"O","K">>
T_Sales == <<"S","a","l","e","s">>
T_for == <<"f","U+00F6","r">>            \* has a Swedish and German character
T_fur == <<"f","U+00FC","r">>            \* has a German character only
T_12 == <<"1","2">>
T_id == <<"_","i","d">>
T_qOK == <<"'","O","K","'">>
T_hex == <<"#","f","f","f">>
T_Namn == <<"N","a","m","n">>
T_SalesOverview == <<"S","a","l","e","s"," ","O","v","e","r","v","i","e","w">>
T_Forsaljningsoversikt ==
    <<"F","U+00F6","r","s","U+00E4","l","j","n","i","n","g","s","U+00F6","v","e","r","s","i","k","t">>

Texts == {T_OK, T_Sales, T_for, T_fur, T_12, T_id, T_qOK, T_hex, <<>>}

VT_textbox == <<"t","e","x","t","b","o","x">>
VT_actionButton == <<"a","c","t","i","o","n","B","u","t","t","o","n">>
VT_button == <<"b","u","t","t","o","n">>
VT_card == <<"c","a","r","d">>
VisualTypes == {VT_textbox, VT_actionButton, VT_button, VT_card}

\* {"expr": {"Literal": {"Value": s}}}
LiteralExpr(s) ==
    JObj(<< <<K_expr, JObj(<< <<K_Literal, JObj(<< <<K_Value, JStr(s)>> >>)>> >>)>> >>)

\* {"properties": {...}}
WithProperties(kv) == JObj(<< <<K_properties, JObj(kv)>> >>)

\* {"textRuns": [{"value": s}]}
ParagraphOf(s) == JObj(<< <<K_textRuns, JArr(<< JObj(<< <<K_value, JStr(s)>> >>) >>)>> >>)

ProjectionKinds == {"same", "missing", "renamed", "empty", "null", "no_nqr"}

\* A projection whose nativeQueryRef is s.
ProjectionOf(kind, s) ==
    CASE kind = "same"    -> JObj(<< <<K_nativeQueryRef, JStr(s)>>, <<K_displayName, JStr(s)>> >>)
      [] kind = "missing" -> JObj(<< <<K_nativeQueryRef, JStr(s)>> >>)
      [] kind = "renamed" -> JObj(<< <<K_nativeQueryRef, JStr(s)>>, <<K_displayName, JStr(T_Namn)>> >>)
      [] kind = "empty"   -> JObj(<< <<K_nativeQueryRef, JStr(s)>>, <<K_displayName, JStr(<<>>)>> >>)
      [] kind = "null"    -> JObj(<< <<K_nativeQueryRef, JStr(s)>>, <<K_displayName, JNull>> >>)
      [] kind = "no_nqr"  -> JObj(<< <<K_displayName, JStr(s)>> >>)

BucketName == <<"V","a","l","u","e","s">>

\* A visual.json of type vt with the text s at every place the scanner
\* reads, and one projection.
VisualDoc(vt, s, kind) ==
    JObj(<<
      <<K_visualType, JStr(vt)>>,
      <<K_visual, JObj(<<
         <<K_visualContainerObjects, JObj(<<
            <<K_title, JArr(<< WithProperties(<< <<K_text, LiteralExpr(s)>> >>) >>)>>,
            <<K_subTitle, JArr(<< WithProperties(<< <<K_text, LiteralExpr(s)>> >>) >>)>> >>)>>,
         <<K_query, JObj(<< <<K_queryState, JObj(<<
            <<BucketName, JObj(<< <<K_projections, JArr(<< ProjectionOf(kind, s) >>)>> >>)>> >>)>> >>)>>,
         <<K_objects, JObj(<<
            <<K_general, JArr(<< WithProperties(<<
                <<K_paragraphs, JArr(<< ParagraphOf(s) >>)>>,
                <<K_placeholder, LiteralExpr(s)>> >>) >>)>>,
            <<K_header, JArr(<< WithProperties(<<
                <<K_text, LiteralExpr(s)>>,
                <<K_label, LiteralExpr(s)>> >>) >>)>> >>)>>,
         <<K_paragraphs, JArr(<< ParagraphOf(s) >>)>> >>)>> >>)

\* The refs of a visual's projections, by their place in the list.
ProjectionRefs == <<T_OK, T_Sales, T_OK, T_Sales>>

\* A card whose one bucket holds a projection of each of the kinds, in order.
ProjectionsDoc(kinds) ==
    JObj(<<
      <<K_visualType, JStr(VT_card)>>,
      <<K_visual, JObj(<<
         <<K_query, JObj(<< <<K_queryState, JObj(<<
            <<BucketName, JObj(<< <<K_projections,
                JArr(AsSeq([i \in 1..Len(kinds) |->
                               ProjectionOf(kinds[i], ProjectionRefs[i])]))>> >>)>> >>)>> >>)>> >>)>> >>)

\* The values of text runs: a text between spaces, a text, a text with a
\* target character, a number and a blank.
T_ClickHere == <<"C","l","i","c","k"," ","h","e","r","e">>
T_ClickHerePadded == <<" ", " ">> \o T_ClickHere \o <<" ">>
RunValues == {T_ClickHerePadded, T_Sales, T_for, T_12, <<" ">>}

\* {"value": s}
RunOf(s) == JObj(<< <<K_value, JStr(s)>> >>)

\* A textbox with the runs general under objects.general, a paragraph each,
\* and the runs visual in one paragraph of visual.paragraphs; a place
\* without runs is not in the document.
TextboxDoc(general, visual) ==
    JObj(<<
      <<K_visualType, JStr(VT_textbox)>>,
      <<K_visual, JObj(
         (IF general = <<>>
          THEN <<>>
          ELSE << <<K_objects, JObj(<<
                    <<K_general, JArr(<< WithProperties(<<
                        <<K_paragraphs,
                          JArr(AsSeq([i \in 1..Len(general) |->
                                  JObj(<< <<K_textRuns, JArr(<< RunOf(general[i]) >>)>> >>)]))>>
                      >>) >>)>> >>)>> >>)
         \o (IF visual = <<>>
             THEN <<>>
             ELSE << <<K_paragraphs,
                       JArr(<< JObj(<< <<K_textRuns,
                          JArr(AsSeq([i \in 1..Len(visual) |-> RunOf(visual[i])]))>> >>) >>)>> >>))>> >>)

\* A visual of type vt whose objects.header holds an object with the text
\* literal texts[i] for each i, and whose objects.general holds one with the
\* text literal "Sales".
HeadersDoc(vt, texts) ==
    JObj(<<
      <<K_visualType, JStr(vt)>>,
      <<K_visual, JObj(<<
         <<K_objects, JObj(<<
            <<K_general, JArr(<< WithProperties(<< <<K_text, LiteralExpr(T_Sales)>> >>) >>)>>,
            <<K_header, JArr(AsSeq([i \in 1..Len(texts) |->
                WithProperties(<< <<K_text, LiteralExpr(texts[i])>> >>)]))>> >>)>> >>)>> >>)

\* A visual.json in which nothing is to be found.
CleanDoc == JObj(<< <<K_visualType, JStr(VT_card)>>, <<K_visual, EmptyDict>> >>)

\* Documents that parse and do not have the expected shape.
VisualWith(kv) == JObj(<< <<K_visualType, JStr(VT_textbox)>>, <<K_visual, JObj(kv)>> >>)
MalformedDocs ==
    { JArr(<<>>),
      JNull,
      JObj(<< <<K_visual, JStr(T_OK)>> >>),
      VisualWith(<< <<K_query, JArr(<<>>)>> >>),
      VisualWith(<< <<K_objects, JArr(<<>>)>> >>),
      VisualWith(<< <<K_query, JObj(<< <<K_queryState, JObj(<<
          <<BucketName, JObj(<< <<K_projections, JArr(<< JStr(T_OK) >>)>> >>)>> >>)>> >>)>> >>),
      VisualWith(<< <<K_query, JObj(<< <<K_queryState, JObj(<<
          <<BucketName, JObj(<< <<K_projections, JArr(<<
              JObj(<< <<K_nativeQueryRef, JNum(7)>>, <<K_displayName, JNum(7)>> >>) >>)>> >>)>> >>)>> >>)>> >>),
      VisualWith(<< <<K_paragraphs, JArr(<<
          JObj(<< <<K_textRuns, JArr(<< JObj(<< <<K_value, JNum(7)>> >>) >>)>> >>) >>)>> >>),
      VisualWith(<< <<K_visualContainerObjects, JObj(<< <<K_title, JNum(7)>> >>)>> >>),
      VisualWith(<< <<K_visualContainerObjects, JObj(<< <<K_title, JStr(T_OK)>> >>)>> >>) }

\* What open() or json.load() may raise on a file glob returned.
FileExceptions == {"JSONDecodeError", "UnicodeDecodeError", "FileNotFoundError", "PermissionError"}

PageDoc(s) == JObj(<< <<K_displayName, JStr(s)>> >>)
MalformedPages ==
    { JArr(<<>>),
      JObj(<< <<K_displayName, JNum(7)>> >>),
      JObj(<< <<K_displayName, JBool(TRUE)>> >>),
      JObj(<< <<K_displayName, JNull>> >>) }

\* Exceptions files.
ExceptionsOf(kv) == JsonFile(JObj(kv))
WellFormedExceptions ==
    { ExceptionsOf(<<>>),
      ExceptionsOf(<< <<K_known_good, JArr(<<JStr(T_OK)>>)>> >>),
      ExceptionsOf(<< <<K_skip_nqr, JArr(<<JStr(T_OK), JStr(T_fur)>>)>> >>),
      ExceptionsOf(<< <<K_translations, JObj(<< <<T_Sales, JStr(T_for)>>, <<T_OK, JStr(T_fur)>> >>)>>,
                      <<K_skip, JArr(<<JStr(T_Sales)>>)>>,
                      <<K_skip_nqr, JArr(<<JStr(T_12)>>)>>,
                      <<K_known_good, JArr(<<JStr(T_Sales), JStr(T_fur)>>)>> >>) }
MalformedExceptions ==
    { JsonFile(JNum(7)),
      JsonFile(JNull),
      JsonFile(JArr(<<>>)),
      JsonFile(JArr(<<JStr(K_skip)>>)),
      JsonFile(JStr(T_OK)),
      ExceptionsOf(<< <<K_translations, JArr(<<JStr(T_OK)>>)>> >>),
      ExceptionsOf(<< <<K_skip, JNum(7)>> >>),
      ExceptionsOf(<< <<K_known_good, JStr(T_OK)>> >>),
      ExceptionsOf(<< <<K_skip_nqr, JArr(<< JArr(<<JStr(T_OK)>>) >>)>> >>),
      FailingFile("JSONDecodeError"),
      FailingFile("PermissionError") }

-----------------------------------------------------------------------------
(* The state machine: a directory, an exceptions file and a client that    *)
(* calls the tools.                                                        *)

NumVisualFiles == 2      \* visual.json files in a directory of several
MaxBadFiles == 1         \* of which so many fail to load
MaxProjections == 3      \* projections in the bucket of a visual
MaxHeaders == 2          \* objects under objects.header of a visual
MaxRuns == 3             \* text runs of a textbox, at its two places together

L_sv == <<"s","v","-","S","E">>
L_de == <<"d","e","-","D","E">>

VisualDirNames ==
    << <<"a","/","v">>, <<"a","-","b","/","v">>, <<"a","/","w">>,
       <<"B","/","v">>, <<"a","/","v","-","1">> >>
PageDirNames == << <<"a">>, <<"a","-","b">> >>

NoFiles == [d \in {} |-> AbsentFile]

Client(lang, exceptions_file) ==
    [target_language |-> lang, exceptions_file |-> exceptions_file]

\* The texts the exceptions files name.
ListedTexts == {T_OK, T_Sales, T_12, T_fur}

\* One visual and its page, the same text everywhere.
InitTexts ==
    \E vt \in VisualTypes, s \in Texts, kind \in ProjectionKinds :
        /\ \/ kind = "same" /\ (vt \in {VT_textbox, VT_actionButton} \/ s \in {T_OK, T_for})
           \/ kind # "same" /\ vt = VT_card /\ s \in {T_OK, T_for, T_fur}
        /\ visualFiles = (VisualDirNames[1] :> JsonFile(VisualDoc(vt, s, kind)))
        /\ pageFiles = (PageDirNames[1] :> JsonFile(PageDoc(s)))
        /\ \/ /\ excFile \in WellFormedExceptions
              /\ s \in ListedTexts
              /\ \E lang \in {L_sv, L_de} :
                    /\ lang = L_de => s = T_fur
                    /\ args = Client(lang, ExcPath)
           \/ /\ excFile = AbsentFile
              /\ \E lang \in {L_sv, L_de} : args = Client(lang, ExcPath)

\* A file that does not load or is malformed: a visual.json beside one that
\* has findings, or a page.json.
InitMalformed ==
    /\ \/ /\ \E f \in {JsonFile(d) : d \in MalformedDocs}
                      \cup {FailingFile(e) : e \in FileExceptions} :
                visualFiles = (VisualDirNames[1] :> JsonFile(VisualDoc(VT_card, T_OK, "same")))
                              @@ (VisualDirNames[2] :> f)
          /\ pageFiles = NoFiles
       \/ /\ visualFiles = NoFiles
          /\ pageFiles \in {PageDirNames[1] :> f :
                              f \in {JsonFile(d) : d \in MalformedPages}
                                    \cup {FailingFile(e) : e \in FileExceptions}}
    /\ excFile = AbsentFile
    /\ args = Client(L_sv, <<>>)

\* Every exceptions file, asked for or not.
InitExceptions ==
    /\ visualFiles = (VisualDirNames[1] :> JsonFile(VisualDoc(VT_textbox, T_OK, "same")))
    /\ pageFiles = (PageDirNames[1] :> JsonFile(PageDoc(T_Sales)))
    /\ excFile \in WellFormedExceptions \cup MalformedExceptions \cup {AbsentFile}
    /\ \E exceptions_file \in {<<>>, ExcPath} : args = Client(L_sv, exceptions_file)

\* One visual with up to MaxProjections projections, and the exceptions file
\* that skips the ref of the first.
InitProjections ==
    /\ \E n \in 0..MaxProjections :
          \E kinds \in [1..n -> {"missing", "same", "empty", "no_nqr"}] :
              visualFiles = (VisualDirNames[1] :> JsonFile(ProjectionsDoc(kinds)))
    /\ pageFiles = NoFiles
    /\ excFile \in {AbsentFile,
                    ExceptionsOf(<< <<K_skip_nqr, JArr(<<JStr(T_OK), JStr(T_fur)>>)>> >>)}
    /\ args = Client(L_sv, ExcPath)

\* One textbox with up to MaxRuns text runs at its two places.
RunSeqs == UNION {[1..n -> RunValues] : n \in 0..MaxRuns}
InitTextboxes ==
    /\ \E general \in RunSeqs, visual \in RunSeqs :
          /\ Len(general) + Len(visual) <= MaxRuns
          /\ visualFiles = (VisualDirNames[1] :> JsonFile(TextboxDoc(general, visual)))
    /\ pageFiles = NoFiles
    /\ excFile = AbsentFile
    /\ args = Client(L_sv, <<>>)

\* One visual with up to MaxHeaders header objects, of a button type or not.
InitHeaders ==
    /\ \E vt \in {VT_button, VT_actionButton, VT_card}, n \in 1..MaxHeaders :
          \E texts \in [1..n -> {T_OK, T_qOK, T_12, T_for}] :
              visualFiles = (VisualDirNames[1] :> JsonFile(HeadersDoc(vt, texts)))
    /\ pageFiles = NoFiles
    /\ excFile = AbsentFile
    /\ args = Client(L_sv, <<>>)

\* Language tags a client may pass: the supported ones, prefixes of them,
\* and tags that match none.
SupportedTags == {LANGUAGE_CHARS[i][1] : i \in 1..Len(LANGUAGE_CHARS)}
OtherTags ==
    { <<>>, <<"s","v">>, <<"d">>, <<"d","e">>, <<"f">>, <<"f","i">>, <<"p">>, <<"p","l","-">>,
      <<"e">>, <<"i","t","-","I">>, <<"n","b","-","N","O">>, <<"x","x">>, <<"e","n","-","U","S">>,
      <<"S","V">>, <<"S","E">>, <<"-">>, <<"d","e","-","D","E","-","x">>, <<"s","v","_","S","E">> }

\* One textbox whose text has a Swedish and German character, every tag.
InitLanguages ==
    /\ visualFiles = (VisualDirNames[1] :> JsonFile(VisualDoc(VT_textbox, T_for, "same")))
    /\ pageFiles = NoFiles
    /\ excFile = AbsentFile
    /\ \E lang \in SupportedTags \cup OtherTags : args = Client(lang, <<>>)

GoodFiles == {JsonFile(VisualDoc(VT_card, T_OK, "missing")), JsonFile(CleanDoc)}
BadFiles == {FailingFile("JSONDecodeError"), FailingFile("PermissionError")}

PageSets ==
    { NoFiles,
      (PageDirNames[1] :> JsonFile(PageDoc(T_Sales))) @@ (PageDirNames[2] :> JsonFile(PageDoc(T_OK))),
      (PageDirNames[1] :> FailingFile("JSONDecodeError")) @@ (PageDirNames[2] :> JsonFile(PageDoc(T_for))),
      (PageDirNames[1] :> JsonFile(PageDoc(T_Forsaljningsoversikt)))
          @@ (PageDirNames[2] :> JsonFile(PageDoc(T_SalesOverview))) }

\* A directory of several visuals, and of pages when every visual loads.
InitDirectory ==
    /\ \E dirs \in SUBSET {VisualDirNames[i] : i \in 1..NumVisualFiles} :
          /\ visualFiles \in [dirs -> GoodFiles \cup BadFiles]
          /\ Cardinality({d \in dirs : visualFiles[d] \in BadFiles}) <= MaxBadFiles
    /\ pageFiles \in PageSets
    /\ pageFiles # NoFiles => \A d \in DOMAIN visualFiles : visualFiles[d] \in GoodFiles
    /\ excFile = AbsentFile
    /\ args = Client(L_sv, <<>>)

NotCalled == [raised |-> FALSE, text |-> <<>>]

\* No call is running and no file is open; the connection module is as its
\* import leaves it.
Idle == [tool |-> "none", at |-> "idle", queue |-> <<>>,
         listing |-> <<>>, page_listing |-> <<>>, count_listing |-> <<>>]
Disconnected == ConnectionState("disconnected", 0, 0, 0, 0, <<>>, <<>>, <<>>)
NothingElse ==
    /\ pending = Idle
    /\ openFiles = <<>>
    /\ _state = Disconnected
    /\ servers = <<>>

Init ==
    /\ \/ InitTexts \/ InitMalformed \/ InitExceptions \/ InitDirectory
       \/ InitProjections \/ InitLanguages \/ InitTextboxes \/ InitHeaders
    /\ languageTable = LANGUAGE_CHARS
    /\ call = "none"
    /\ out = NotCalled
    /\ trace = Trace(NoExceptions, {}, NoScan)
    /\ prev = [call |-> "none", out |-> NotCalled]
    /\ NothingElse

Next ==
    \/ scan_english_remaining
    \/ scan_missing_displaynames
    \/ validate_translation_coverage

Spec == Init /\ [][Next]_vars

-----------------------------------------------------------------------------
(* A session: the tools called again and again while the report files and  *)
(* the exceptions file change between the calls.                           *)

SessionVisuals ==
    {NoFiles} \cup {VisualDirNames[1] :> JsonFile(d) :
                      d \in {VisualDoc(VT_textbox, T_OK, "same"),
                             VisualDoc(VT_card, T_fur, "missing"),
                             CleanDoc}}
SessionPages == {NoFiles, PageDirNames[1] :> JsonFile(PageDoc(T_Sales))}
SessionExceptions == WellFormedExceptions \cup {AbsentFile}

InitSession ==
    /\ languageTable = LANGUAGE_CHARS
    /\ visualFiles \in SessionVisuals
    /\ pageFiles \in SessionPages
    /\ excFile \in SessionExceptions
    /\ \E lang \in {L_sv, L_de} : args = Client(lang, ExcPath)
    /\ call = "none"
    /\ out = NotCalled
    /\ trace = Trace(NoExceptions, {}, NoScan)
    /\ prev = [call |-> "none", out |-> NotCalled]
    /\ NothingElse

\* The files changed: no call has been made on what is there now.  The
\* process keeps what it holds.
FilesChanged ==
    /\ call' = "none"
    /\ out' = NotCalled
    /\ prev' = IF call = "none" THEN prev ELSE [call |-> call, out |-> out]
    /\ UNCHANGED <<languageTable, args, trace, pending, openFiles, _state, servers>>

VisualFilesChange ==
    /\ visualFiles' \in SessionVisuals \ {visualFiles}
    /\ UNCHANGED <<pageFiles, excFile>>
    /\ FilesChanged

PageFilesChange ==
    /\ pageFiles' \in SessionPages \ {pageFiles}
    /\ UNCHANGED <<visualFiles, excFile>>
    /\ FilesChanged

ExceptionsFileChanges ==
    /\ excFile' \in SessionExceptions \ {excFile}
    /\ UNCHANGED <<visualFiles, pageFiles>>
    /\ FilesChanged

NextSession ==
    \/ scan_english_remaining
    \/ scan_missing_displaynames
    \/ validate_translation_coverage
    \/ VisualFilesChange
    \/ PageFilesChange
    \/ ExceptionsFileChanges

SessionSpec == InitSession /\ [][NextSession]_vars

-----------------------------------------------------------------------------
(* A call step by step: every open() of a file, the json.load() under it   *)
(* and the end of its with block, in the order the call makes them.        *)

\* What the call reads next: the path and the function whose loop reads it.
ToRead(fp, reader) == [fp |-> fp, reader |-> reader]

\* Lines 94-98: load_exceptions opens the file when a path was given and
\* os.path.isfile finds it.
ExceptionsRead ==
    IF args.exceptions_file = <<>> \/ excFile.kind = "absent"
    THEN <<>>
    ELSE <<ToRead(ExcPath, "load_exceptions")>>

\* The reads of a loop over the paths fps.
ReadsOf(fps, reader) == AsSeq([i \in 1..Len(fps) |-> ToRead(fps[i], reader)])

\* The files a tool reads, in order: lines 407, 277-278 and 237-240 for
\* scan_english_remaining, then 344-347 for validate_translation_coverage;
\* lines 417 and 420-423 for scan_missing_displaynames.
FilesToRead(tool, listing, page_listing, count_listing) ==
    CASE tool = "scan_english_remaining" ->
            ExceptionsRead \o ReadsOf(sorted(listing), "scan_visual")
            \o ReadsOf(sorted(page_listing), "scan_page_names")
      [] tool = "validate_translation_coverage" ->
            ExceptionsRead \o ReadsOf(sorted(listing), "scan_visual")
            \o ReadsOf(sorted(page_listing), "scan_page_names")
            \o ReadsOf(count_listing, "_validate_coverage")
      [] tool = "scan_missing_displaynames" ->
            ExceptionsRead \o ReadsOf(sorted(listing), "scan_missing_displaynames")

\* The file a read is of.
FileRead(read) ==
    CASE read.reader = "load_exceptions" -> excFile
      [] read.reader = "scan_page_names" -> PageFileAt(read.fp)
      [] OTHER                           -> VisualFileAt(read.fp)

\* open() raises for a file that is gone or may not be read; json.load()
\* raises for one that does not decode or parse.
OpenRaises(file) == file.kind \in {"FileNotFoundError", "PermissionError"}
LoadRaises(file) == file.kind \in {"JSONDecodeError", "UnicodeDecodeError"}

\* The iteration that made the read ends the call: with an exception of
\* open() or json.load() that its except clause does not catch, or with one
\* raised by what it does with the data.
EndsCall(read, exc, target) ==
    CASE read.reader = "load_exceptions" -> exc.raised
      [] read.reader = "scan_visual" ->
            scan_visual(VisualFileAt(read.fp), target, exc.skip_nqr, exc.known_good).raised
      [] read.reader = "scan_page_names" -> PageFile(read.fp, target, exc.known_good).raised
      [] read.reader = "_validate_coverage" -> CountFile(VisualFileAt(read.fp)).raised
      [] read.reader = "scan_missing_displaynames" -> MissingFile(read.fp, exc.skip_nqr).raised

\* The reads left after the first of the queue, and where the call is then.
ReadsLeft(queue, exc, target) ==
    IF EndsCall(Head(queue), exc, target) THEN <<>> ELSE Tail(queue)
After(queue) == IF queue = <<>> THEN "return" ELSE "open"

\* A with block left by a file object that is closed only when the block
\* ran to its end.
ClosedAtEndOnly(open_files, fp, failed) ==
    IF failed
    THEN open_files
    ELSE SelectSeq(open_files, LAMBDA f : f # fp)

\* Lines 97-98, 145-146, 239-240, 346-347 and 422-423: the with statement
\* closes the file when the block is left, by its end or by an exception.
WithExit(open_files, fp, failed) == SelectSeq(open_files, LAMBDA f : f # fp)

\* A client calls a tool: the call starts, glob will list as chosen here.
Begin ==
    /\ pending.at = "idle"
    /\ \E tool \in {"scan_english_remaining", "scan_missing_displaynames",
                    "validate_translation_coverage"},
          listing \in Listings(VisualPaths), page_listing \in Listings(PagePaths),
          count_listing \in Listings(VisualPaths) :
          /\ tool # "validate_translation_coverage" => count_listing = listing
          /\ tool = "scan_missing_displaynames" =>
                page_listing = CHOOSE l \in Listings(PagePaths) : TRUE
          /\ pending' =
                [tool |-> tool,
                 at |-> After(FilesToRead(tool, listing, page_listing, count_listing)),
                 queue |-> FilesToRead(tool, listing, page_listing, count_listing),
                 listing |-> listing, page_listing |-> page_listing,
                 count_listing |-> count_listing]
    /\ UNCHANGED <<languageTable, visualFiles, pageFiles, excFile, args, call, out, trace,
                   prev, openFiles, _state, servers>>

\* open(fp): the file is open, or open() raised and there is no file object.
OpenFile ==
    /\ pending.at = "open"
    /\ IF OpenRaises(FileRead(Head(pending.queue)))
       THEN /\ openFiles' = openFiles
            /\ pending' =
                  [pending EXCEPT
                     !.queue = ReadsLeft(pending.queue, load_exceptions(args.exceptions_file),
                                         _resolve_target(args.target_language)),
                     !.at = After(ReadsLeft(pending.queue, load_exceptions(args.exceptions_file),
                                            _resolve_target(args.target_language)))]
       ELSE /\ openFiles' = Append(openFiles, Head(pending.queue).fp)
            /\ pending' = [pending EXCEPT !.at = "load"]
    /\ UNCHANGED <<languageTable, visualFiles, pageFiles, excFile, args, call, out, trace,
                   prev, _state, servers>>

\* json.load(fh) reads the file to its end or raises, the with block is left
\* and the iteration does what it does with the data.
LoadFile ==
    /\ pending.at = "load"
    /\ openFiles' = WithExit(openFiles, Head(pending.queue).fp,
                             LoadRaises(FileRead(Head(pending.queue))))
    /\ pending' =
          [pending EXCEPT
             !.queue = ReadsLeft(pending.queue, load_exceptions(args.exceptions_file),
                                 _resolve_target(args.target_language)),
             !.at = After(ReadsLeft(pending.queue, load_exceptions(args.exceptions_file),
                                    _resolve_target(args.target_language)))]
    /\ UNCHANGED <<languageTable, visualFiles, pageFiles, excFile, args, call, out, trace,
                   prev, _state, servers>>

\* The call returns or raises: what it made of the files it read.
Return ==
    /\ pending.at = "return"
    /\ CASE pending.tool = "scan_english_remaining" ->
               ScanEnglishRemaining(load_exceptions(args.exceptions_file),
                                    _resolve_target(args.target_language),
                                    pending.listing, pending.page_listing)
         [] pending.tool = "scan_missing_displaynames" ->
               ScanMissingDisplaynames(load_exceptions(args.exceptions_file), pending.listing)
         [] pending.tool = "validate_translation_coverage" ->
               ValidateTranslationCoverage(load_exceptions(args.exceptions_file),
                                           _resolve_target(args.target_language),
                                           pending.listing, pending.page_listing,
                                           pending.count_listing)
    /\ pending' = Idle
    /\ UNCHANGED <<openFiles, _state, servers>>

\* Directories with files that fail to open, to parse or to be walked, and
\* every exceptions file.
InitFiles ==
    /\ InitMalformed \/ InitExceptions
    /\ languageTable = LANGUAGE_CHARS
    /\ call = "none"
    /\ out = NotCalled
    /\ trace = Trace(NoExceptions, {}, NoScan)
    /\ prev = [call |-> "none", out |-> NotCalled]
    /\ NothingElse

NextFiles == Begin \/ OpenFile \/ LoadFile \/ Return

FileSpec == InitFiles /\ [][NextFiles]_vars

-----------------------------------------------------------------------------
(* powerbi_modeling_mcp/connection.py: connect_local, connect_fabric,      *)
(* connect_pbip, disconnect and the two require functions.  The TOM server  *)
(* and the file system answer as they choose.                              *)

MaxServers == 3          \* Server objects made in a run

\* ConnectionState.is_connected
is_connected(state) == state.mode # "disconnected"

\* Server(): a new object, not connected.
NewServer == [connected |-> FALSE, left_open |-> FALSE]

\* How a call of server.Disconnect() may end: it returns; it raises and the
\* connection is gone; it raises and the connection is still there.
DisconnectOutcomes == {"returned", "raised", "raised_still_connected"}

\* server.Connect(conn_str) returned, on the server at place s.
ServerConnect(svs, s) == [svs EXCEPT ![s].connected = TRUE]

\* server.Disconnect() on the server at place s.
ServerDisconnect(svs, s, outcome) ==
    [svs EXCEPT ![s] = IF outcome = "raised_still_connected" /\ @.connected
                       THEN [connected |-> TRUE, left_open |-> TRUE]
                       ELSE [connected |-> FALSE, left_open |-> @.left_open]]

\* Lines 179-183: the servers after disconnect(); an exception of
\* Disconnect() is caught and dropped.
ServersAfterDisconnect(state, svs, outcome) ==
    IF state.server # 0
    THEN ServerDisconnect(svs, state.server, outcome)
    ELSE svs

\* What a connection call leaves: the module state, the servers and what
\* the call returned, or that it raised.
Connection(tool, state, svs, raised, value) ==
    /\ _state' = state
    /\ servers' = svs
    /\ call' = tool
    /\ out' = [raised |-> raised, value |-> value]
    /\ prev' = IF call = "none" THEN prev ELSE [call |-> call, out |-> out]
    /\ UNCHANGED <<languageTable, visualFiles, pageFiles, excFile, args, trace,
                   pending, openFiles>>

\* f"Data Source=localhost:{port}" and the string of lines 113-116.
LocalConnStr(port) == <<Lit("Data Source=localhost:"), Number(port)>>
FabricConnStr(workspace, dataset, access_token) ==
    <<Lit("Data Source="), Lit("powerbi://api.powerbi.com/v1.0/myorg/"), Chars(workspace),
      Lit(";Initial Catalog="), Chars(dataset)>>
    \o (IF access_token # <<>> THEN <<Lit(";Password="), Chars(access_token)>> ELSE <<>>)

\* A database the server has: its handle, its Model (0 for None) and Name.
Database(handle, model, name) == [handle |-> handle, model |-> model, name |-> name]

\* Lines 73-103, disconnect() having left the servers svs: Connect() returns
\* or raises; db is Databases[0], with handle 0 when Databases.Count is 0.
Local(port, svs, connects, db, outcome) ==
    LET s == Len(svs) + 1
        made == Append(svs, NewServer)
    IN  IF ~connects
        THEN Connection("connect_local", Disconnected, made, TRUE, "connection error")
        ELSE IF db.handle = 0
        THEN Connection("connect_local", Disconnected,
                        ServerDisconnect(ServerConnect(made, s), s, outcome),
                        TRUE, "no databases found")
        ELSE Connection("connect_local",
                        ConnectionState("local", s, db.handle, db.model, port,
                                        LocalConnStr(port), <<>>, db.name),
                        ServerConnect(made, s), FALSE, "connected")

\* Lines 111-141: db is what FindByName(dataset) returns, handle 0 for None.
Fabric(workspace, dataset, access_token, svs, connects, db, outcome) ==
    LET s == Len(svs) + 1
        made == Append(svs, NewServer)
    IN  IF ~connects
        THEN Connection("connect_fabric", Disconnected, made, TRUE, "connection error")
        ELSE IF db.handle = 0
        THEN Connection("connect_fabric", Disconnected,
                        ServerDisconnect(ServerConnect(made, s), s, outcome),
                        TRUE, "dataset not found")
        ELSE Connection("connect_fabric",
                        ConnectionState("fabric", s, db.handle, db.model, 0,
                                        FabricConnStr(workspace, dataset, access_token),
                                        <<>>, db.name),
                        ServerConnect(made, s), FALSE, "connected")

\* Lines 149-172: the folder exists or not, and has .tmdl files or not.
Pbip(folder_path, svs, exists, tmdl_files) ==
    IF ~exists
    THEN Connection("connect_pbip", Disconnected, svs, TRUE, "folder not found")
    ELSE IF tmdl_files = 0
    THEN Connection("connect_pbip", Disconnected, svs, TRUE, "no .tmdl files")
    ELSE Connection("connect_pbip",
                    ConnectionState("pbip", 0, 0, 0, 0, <<>>, folder_path, <<>>),
                    svs, FALSE, "connected")

\* What the server and the file system may answer.
Ports == {1, 2}
T_db == <<"d","b">>
Databases == {Database(0, 0, <<>>), Database(1, 1, T_db), Database(1, 0, T_db)}
Folders == {<<"p">>, <<"q">>}

connect_local ==
    /\ Len(servers) < MaxServers
    /\ \E port \in Ports, closing \in DisconnectOutcomes, connects \in BOOLEAN,
          db \in Databases, outcome \in DisconnectOutcomes :
          Local(port, ServersAfterDisconnect(_state, servers, closing), connects, db, outcome)

connect_fabric ==
    /\ Len(servers) < MaxServers
    /\ \E access_token \in {<<>>, <<"t">>}, closing \in DisconnectOutcomes,
          connects \in BOOLEAN, db \in Databases, outcome \in DisconnectOutcomes :
          Fabric(<<"w">>, T_db, access_token,
                 ServersAfterDisconnect(_state, servers, closing), connects, db, outcome)

connect_pbip ==
    \E folder_path \in Folders, closing \in DisconnectOutcomes, exists \in BOOLEAN,
       tmdl_files \in {0, 2} :
        Pbip(folder_path, ServersAfterDisconnect(_state, servers, closing), exists, tmdl_files)

\* Lines 175-191.
disconnect ==
    \E closing \in DisconnectOutcomes :
        Connection("disconnect", Disconnected,
                   ServersAfterDisconnect(_state, servers, closing), FALSE,
                   IF is_connected(_state) THEN "was connected" ELSE "was not connected")

\* Lines 53-57.
require_connected ==
    Connection("require_connected", _state, servers, ~is_connected(_state), "state")

\* Lines 60-65.
require_tom_connected ==
    Connection("require_tom_connected", _state, servers,
               ~is_connected(_state) \/ _state.mode = "pbip", "state")

InitConnection ==
    /\ languageTable = LANGUAGE_CHARS
    /\ visualFiles = NoFiles
    /\ pageFiles = NoFiles
    /\ excFile = AbsentFile
    /\ args = Client(L_sv, <<>>)
    /\ call = "none"
    /\ out = NotCalled
    /\ trace = Trace(NoExceptions, {}, NoScan)
    /\ prev = [call |-> "none", out |-> NotCalled]
    /\ NothingElse

NextConnection ==
    \/ connect_local
    \/ connect_fabric
    \/ connect_pbip
    \/ disconnect
    \/ require_connected
    \/ require_tom_connected

ConnectionSpec == InitConnection /\ [][NextConnection]_vars

-----------------------------------------------------------------------------
(* The classifier on its own: _is_non_translatable called on a string.     *)

\* The word in every mix of upper and lower case.
UpperOf(c) ==
    IF \E i \in 1..26 : LowerLetters[i] = c
    THEN UpperLetters[CHOOSE i \in 1..26 : LowerLetters[i] = c]
    ELSE c
CaseVariants(word) ==
    {AsSeq([i \in 1..Len(word) |-> IF i \in S THEN UpperOf(word[i]) ELSE word[i]]) :
        S \in SUBSET (1..Len(word))}

\* Hex colors: # and 3 to 8 hex digits.
HexColors ==
    {<<"#">> \o digits :
        digits \in { <<"f","f","f">>, <<"0","9","a","F">>, <<"A","b","C","d","E">>,
                     <<"0","0","f","f","7","F">>, <<"1","2","3","4","5","6","7">>,
                     <<"F","F","F","F","F","F","F","F">> }}

\* Strings that start with rgb( or rgba(.
RgbColors ==
    {start \o rest :
        start \in {<<"r","g","b","(">>, <<"r","g","b","a","(">>},
        rest \in {<<>>, <<"0",",","0",",","0",")">>, <<"x"," ","y">>}}

\* true and false in any letter case.
BooleanLiterals == CaseVariants(<<"t","r","u","e">>) \cup CaseVariants(<<"f","a","l","s","e">>)

\* Bare numbers: an optional minus, digits, an optional decimal part, an
\* optional D or L.
BareNumbers ==
    {sign \o whole \o decimals \o suffix :
        sign \in {<<>>, <<"-">>},
        whole \in {<<"0">>, <<"1","2">>, <<"0","0","7">>},
        decimals \in {<<>>, <<".","5">>, <<".","2","5","0">>},
        suffix \in {<<>>, <<"D">>, <<"L">>}}

\* Strings of fewer than 2 characters.
ShortStrings == {<<>>, <<"a">>, <<"Z">>, <<"'">>, <<"U+00F6">>, <<" ">>}

\* Strings of none of these kinds.
OrdinaryStrings ==
    { T_OK, T_Sales, T_SalesOverview, <<"#","f","f">>, <<"#","g","g","g">>,
      <<"R","G","B","(","1",")">>, <<"t","r","u","e","r">>, <<"1","2","k","g">>,
      <<"+","5","L">>, <<"1","2","D","L">>, <<"n","o">> }

\* The string between whitespace, or between a pair of quotes and
\* whitespace.
Wrappings == {"bare", "single", "double", "spaces", "spaces and single", "tab and double"}
Wrap(how, body) ==
    CASE how = "bare"              -> body
      [] how = "single"            -> <<"'">> \o body \o <<"'">>
      [] how = "double"            -> <<"\"">> \o body \o <<"\"">>
      [] how = "spaces"            -> <<" ">> \o body \o <<" ", " ">>
      [] how = "spaces and single" -> <<" ", "'">> \o body \o <<"'", " ">>
      [] how = "tab and double"    -> <<"\t", "\"">> \o body \o <<"\"", "\n">>
Wrapped(bodies) == {Wrap(how, body) : how \in Wrappings, body \in bodies}

\* Strings about fonts: a font keyword or another word, then nothing, a
\* comma, a single quote or a double quote.
FontWords ==
    { <<"A","r","i","a","l">>, <<"S","E","G","O","E"," ","U","I">>,
      <<"s","a","n","s","-","s","e","r","i","f">>, <<"w","f","_","s","t","d">>,
      <<"t","h","e"," ","C","o","u","r","i","e","r"," ","f","a","c","e">> }
PlainWords == { T_Sales, <<"F","o","n","t"," ","s","i","z","e">> }
Marks == {"none", "comma", "single", "double"}
Marked(word, mark) ==
    CASE mark = "none"   -> word
      [] mark = "comma"  -> word \o <<",", " ", "x">>
      [] mark = "single" -> <<"'">> \o word \o <<"'", " ", "x">>
      [] mark = "double" -> word \o <<" ", "\"", "x", "\"", "!">>
FontStrings == {Marked(word, mark) : word \in FontWords \cup PlainWords, mark \in Marks}

InitClassifier ==
    /\ languageTable = LANGUAGE_CHARS
    /\ visualFiles = NoFiles
    /\ pageFiles = NoFiles
    /\ excFile = AbsentFile
    /\ args \in {[raw |-> raw] :
                    raw \in Wrapped(HexColors \cup RgbColors \cup BooleanLiterals \cup BareNumbers
                                    \cup ShortStrings \cup OrdinaryStrings)
                            \cup FontStrings \cup Wrapped(FontStrings)}
    /\ call = "none"
    /\ out = NotCalled
    /\ trace = Trace(NoExceptions, {}, NoScan)
    /\ prev = [call |-> "none", out |-> NotCalled]
    /\ NothingElse

\* _is_non_translatable(raw) is called and returns.
is_non_translatable ==
    /\ call' = "_is_non_translatable"
    /\ out' = [raised |-> FALSE, value |-> _is_non_translatable(args.raw)]
    /\ UNCHANGED <<languageTable, visualFiles, pageFiles, excFile, args, trace, prev,
                    pending, openFiles, _state, servers>>

ClassifierSpec == InitClassifier /\ [][is_non_translatable]_vars

-----------------------------------------------------------------------------
(* Properties of the translation audit                                     *)

\* A scanning tool has been called and had its exception sets.
Scanned ==
    /\ call \in {"scan_english_remaining", "validate_translation_coverage"}
    /\ ~trace.exc.raised

TextCats ==
    {"title_subtitle", "displayname", "textbox", "placeholder", "header_text", "button_text"}

\* The texts of the findings in a result of scan_all.
VisualTexts(result) ==
    UNION {{vf[c][j].text : j \in 1..Len(vf[c])} : vf \in Range(result.visuals), c \in TextCats}
PageTexts(result) == {result.pages[i].displayName : i \in 1..Len(result.pages)}
ReportedTexts(result) == VisualTexts(result) \cup PageTexts(result)

\* The file behind an entry of the result.
EntryFile(vf) == visualFiles[Dirname(vf.file)]

\* A visual.json made by VisualDoc holds the text s at every place.
HoldsText(vt, s, kind) ==
    \E d \in DOMAIN visualFiles : visualFiles[d] = JsonFile(VisualDoc(vt, s, kind))

\* C1: no finding of a scan, in any text-bearing category or among the page
\* names, has a text that is a member of the known_good set the scan was
\* given.
C1_KnownGoodSuppressedEverywhere ==
    Scanned =>
        \A s \in ReportedTexts(trace.result) : ~InSet(JStr(s), trace.exc.known_good)

\* C2: no text reported by a scan, in any text-bearing category or among
\* the page names, contains a character of the target profile, whatever the
\* exception sets hold.
C2_TargetTextNeverReported ==
    Scanned =>
        \A s \in ReportedTexts(trace.result) : Range(s) \cap trace.target = {}

\* A scan was given a visual and a page whose text has a target character
\* and is otherwise a candidate, and reported neither.
C2_Witness ==
    /\ Scanned
    /\ HoldsText(VT_textbox, T_for, "same")
    /\ \E d \in DOMAIN pageFiles : pageFiles[d] = JsonFile(PageDoc(T_for))
    /\ "U+00F6" \in trace.target
    /\ ~trace.result.raised
    /\ ReportedTexts(trace.result) = {}

\* The findings of a result: none in any category of any file, no page name.
NoIssues(result) ==
    /\ result.pages = <<>>
    /\ \A i \in 1..Len(result.visuals), c \in Range(_ALL_CATS) : result.visuals[i][c] = <<>>

VerdictLine(text) == text[10]
CoverageLine(text) == text[5]

\* C3: the validator's verdict is PASS iff the scan_all result holds no
\* finding in any category of any file and no page name, and FAIL otherwise,
\* whatever the coverage percentage.
C3_VerdictIsIssueCountZero ==
    (call = "validate_translation_coverage" /\ ~out.raised) =>
        VerdictLine(out.text) =
            <<Lit("VERDICT: "), Lit(IF NoIssues(trace.result) THEN "PASS" ELSE "FAIL")>>

\* The validator passed a directory whose only projection has no displayName:
\* coverage 0.0%.
C3_Witness ==
    /\ call = "validate_translation_coverage"
    /\ ~out.raised
    /\ VerdictLine(out.text) = <<Lit("VERDICT: "), Lit("PASS")>>
    /\ CoverageLine(out.text) =
           <<Lit("Projections with displayName: "), Number(0), Lit(" ("), Tenths(0), Lit("%)")>>
    /\ out.text[4] = <<Lit("Projections total: "), Number(1)>>

\* C4: a tool that had its exception sets returns a result and does not
\* raise, whatever the directory holds.
C4_ToolsNeverRaise ==
    (call # "none" /\ ~trace.exc.raised) => ~out.raised

\* The visual.json files that fail to parse.
ParseFailures == {"JSONDecodeError", "UnicodeDecodeError", "FileNotFoundError"}
UnparsedPaths == {fp \in VisualPaths : VisualFileAt(fp).kind \in ParseFailures}

\* C5: a visual.json that fails to parse (decode error, encoding error, file
\* missing) gets seven empty categories from scan_visual, has no entry in the
\* scan_all result, and the result is the one of the directory without it.
C5_UnparsedFileIsSkipped ==
    Scanned =>
        /\ \A fp \in UnparsedPaths :
              LET res == scan_visual(VisualFileAt(fp), trace.target,
                                     trace.exc.skip_nqr, trace.exc.known_good)
              IN  /\ ~res.raised
                  /\ \A c \in Range(_ALL_CATS) : res.cats[c] = <<>>
        /\ \A i \in 1..Len(trace.result.visuals), fp \in UnparsedPaths :
              trace.result.visuals[i].file # Relpath(fp, PagesDir)
        /\ trace.result =
              scan_all(CHOOSE l \in Listings(VisualPaths \ UnparsedPaths) : TRUE,
                       CHOOSE l \in Listings(PagePaths) : TRUE,
                       trace.target, trace.exc.skip_nqr, trace.exc.known_good)

\* A scan met a file with an encoding error and reported the findings of
\* the file beside it.
C5_Witness ==
    /\ Scanned
    /\ \E fp \in UnparsedPaths : VisualFileAt(fp).kind = "UnicodeDecodeError"
    /\ ~trace.result.raised
    /\ Len(trace.result.visuals) = 1

\* C6: load_exceptions does not raise, whatever the exceptions file holds.
C6_LoadExceptionsNeverRaises ==
    call # "none" => ~trace.exc.raised


\* The elements of the list, and the values of the mapping, under key.
ElementsAt(doc, key) == IF HasKey(doc, key) THEN Range(Item(doc, key).a) ELSE {}
ValuesAt(doc, key) ==
    IF HasKey(doc, key)
    THEN {Item(doc, key).kv[i][2] : i \in 1..Len(Item(doc, key).kv)}
    ELSE {}

\* C7: for a well-formed exceptions object load_exceptions returns skip_nqr =
\* skip + skip_nqr and known_good = translations' values + known_good, an
\* absent key adding nothing; two empty sets when the path is empty or no
\* file is there.
C7_ExceptionSetsAreTheUnions ==
    call # "none" =>
        IF args.exceptions_file = <<>> \/ excFile.kind = "absent"
        THEN trace.exc = [raised |-> FALSE, skip_nqr |-> {}, known_good |-> {}]
        ELSE excFile \in WellFormedExceptions =>
                trace.exc =
                    [raised |-> FALSE,
                     skip_nqr |-> ElementsAt(excFile.doc, K_skip)
                                  \cup ElementsAt(excFile.doc, K_skip_nqr),
                     known_good |-> ValuesAt(excFile.doc, K_translations)
                                    \cup ElementsAt(excFile.doc, K_known_good)]

\* A tool read the exceptions file that has all four keys.
C7_Witness ==
    /\ call # "none"
    /\ args.exceptions_file = ExcPath
    /\ excFile \in WellFormedExceptions
    /\ trace.exc.skip_nqr = {JStr(T_Sales), JStr(T_12)}
    /\ trace.exc.known_good = {JStr(T_for), JStr(T_fur), JStr(T_Sales)}

\* C8: scan_english_remaining called twice in a row on the unchanged
\* directory, with the same target language and exceptions file, returns
\* the same text both times; so does validate_translation_coverage.
C8_SecondCallSameText ==
    (call = prev.call /\ call \in {"scan_english_remaining", "validate_translation_coverage"}) =>
        out = prev.out

\* scan_english_remaining ran twice on a directory with findings in two
\* files.
C8_Witness ==
    /\ call = "scan_english_remaining"
    /\ prev.call = "scan_english_remaining"
    /\ ~out.raised
    /\ Len(trace.result.visuals) = 2
    /\ out = prev.out

\* visualType as line 151 reads it.
VisualTypeOf(file) == DictGet(file.doc, K_visualType, JStr(<<>>))

\* C9: a visual whose visualType is not "textbox" has an empty textbox
\* category, and one whose visualType is neither "actionButton" nor "button"
\* has an empty button_text category.
C9_CategoriesOfOtherTypesEmpty ==
    Scanned =>
        \A vf \in Range(trace.result.visuals) :
            /\ VisualTypeOf(EntryFile(vf)) # JStr(VT_textbox) => vf.textbox = <<>>
            /\ VisualTypeOf(EntryFile(vf)) \notin {JStr(VT_actionButton), JStr(VT_button)}
                  => vf.button_text = <<>>

\* A card with paragraphs and button texts was scanned and has findings,
\* none of them in the two categories.
C9_Witness ==
    /\ Scanned
    /\ HoldsText(VT_card, T_OK, "same")
    /\ \E vf \in Range(trace.result.visuals) :
          /\ vf.header_text # <<>>
          /\ vf.textbox = <<>>
          /\ vf.button_text = <<>>

\* The projections of a visual.json whose displayName is a str equal to
\* their nativeQueryRef: the values.
ProjectionsOf(bucket) ==
    IF bucket.t = "obj" /\ DictGet(bucket, K_projections, EmptyList).t = "arr"
    THEN Range(DictGet(bucket, K_projections, EmptyList).a)
    ELSE {}
QueryStateOf(file) ==
    DictGet(DictGet(DictGet(file.doc, K_visual, EmptyDict), K_query, EmptyDict),
            K_queryState, EmptyDict)
SelfNamed(file) ==
    IF file.kind = "json" /\ QueryStateOf(file).t = "obj"
    THEN {DictGet(p, K_displayName, JNull).s :
            p \in {q \in UNION {ProjectionsOf(QueryStateOf(file).kv[i][2]) :
                                   i \in 1..Len(QueryStateOf(file).kv)} :
                     /\ q.t = "obj"
                     /\ DictGet(q, K_displayName, JNull).t = "str"
                     /\ DictGet(q, K_displayName, JNull).s # <<>>
                     /\ DictGet(q, K_nativeQueryRef, JNull) = DictGet(q, K_displayName, JNull)}}
    ELSE {}

\* The value is a displayname finding of the file at fp.
DisplayNameFinding(fp, s) ==
    \E vf \in Range(trace.result.visuals) :
        /\ vf.file = Relpath(fp, PagesDir)
        /\ \E j \in 1..Len(vf.displayname) : vf.displayname[j].text = s

\* C10, as stated: a projection whose displayName equals its nativeQueryRef
\* is a displayname finding iff the ref is not in skip_nqr and the value has
\* no character of the target profile.
C10_FindingIffNotSkippedNoTarget ==
    (Scanned /\ ~trace.result.raised) =>
        \A fp \in VisualPaths : \A s \in SelfNamed(VisualFileAt(fp)) :
            DisplayNameFinding(fp, s) <=>
                /\ ~InSet(JStr(s), trace.exc.skip_nqr)
                /\ Range(s) \cap trace.target = {}

\* C10: a projection whose displayName equals its nativeQueryRef is a
\* displayname finding iff the ref is not in skip_nqr, the value is not in
\* known_good, is readable and not non-translatable, and has no character of
\* the target profile.
C10_FindingIffCandidateNotSkipped ==
    (Scanned /\ ~trace.result.raised) =>
        \A fp \in VisualPaths : \A s \in SelfNamed(VisualFileAt(fp)) :
            DisplayNameFinding(fp, s) <=>
                /\ ~InSet(JStr(s), trace.exc.skip_nqr)
                /\ ~InSet(JStr(s), trace.exc.known_good)
                /\ _is_readable(s)
                /\ ~_is_non_translatable(s)
                /\ Range(s) \cap trace.target = {}

\* A scan found a self-named projection that is a candidate, and skipped
\* none.
C10_Witness ==
    /\ Scanned
    /\ ~trace.result.raised
    /\ trace.exc.skip_nqr # {}
    /\ \E fp \in VisualPaths : \E s \in SelfNamed(VisualFileAt(fp)) :
          /\ DisplayNameFinding(fp, s)
          /\ ~InSet(JStr(s), trace.exc.skip_nqr)

\* The projections of a bucket, in order; none when the bucket has no list
\* of them.
ProjectionSeq(bucket) ==
    IF bucket.t = "obj" /\ DictGet(bucket, K_projections, EmptyList).t = "arr"
    THEN DictGet(bucket, K_projections, EmptyList).a
    ELSE <<>>

\* The buckets of a visual.json, as <<name, data>> pairs.
BucketsOf(file) ==
    IF file.kind = "json" /\ QueryStateOf(file).t = "obj"
    THEN QueryStateOf(file).kv
    ELSE <<>>

\* The non-empty refs of the projections of a file.
RefsOf(file) ==
    {r \in {DictGet(p, K_nativeQueryRef, JNull) :
               p \in {q \in UNION {Range(ProjectionSeq(BucketsOf(file)[k][2])) :
                                       k \in 1..Len(BucketsOf(file))} : q.t = "obj"}} :
        r.t = "str" /\ r.s # <<>>}

\* Among the projections ps, those with the ref r: the ones without the key
\* displayName, the ones with it, and the ones whose displayName is a
\* non-empty value.
Keyless(ps, r) ==
    {i \in 1..Len(ps) : /\ ps[i].t = "obj"
                        /\ DictGet(ps[i], K_nativeQueryRef, JNull) = r
                        /\ ~HasKey(ps[i], K_displayName)}
Keyed(ps, r) ==
    {i \in 1..Len(ps) : /\ ps[i].t = "obj"
                        /\ DictGet(ps[i], K_nativeQueryRef, JNull) = r
                        /\ HasKey(ps[i], K_displayName)}
Named(ps, r) ==
    {i \in 1..Len(ps) : /\ ps[i].t = "obj"
                        /\ DictGet(ps[i], K_nativeQueryRef, JNull) = r
                        /\ Truthy(DictGet(ps[i], K_displayName, JNull))}

\* The findings of category c of the file at fp in the latest result.
FindingsAt(fp, c) ==
    IF \E vf \in Range(trace.result.visuals) : vf.file = Relpath(fp, PagesDir)
    THEN (CHOOSE vf \in Range(trace.result.visuals) : vf.file = Relpath(fp, PagesDir))[c]
    ELSE <<>>

\* The places of the item in a list of findings.
PlacesOf(item, findings) == {j \in 1..Len(findings) : findings[j] = item}

\* C11: of the projections of a bucket that have the ref r, each one without
\* a displayName key gives one missing_displayname finding with r and the
\* bucket's name (so there are at least as many such findings, and no more
\* than there are projections with that ref and no displayName value), unless
\* r is in skip_nqr, when no finding of either category carries r; and the
\* displayname findings with r are no more than the projections that have the
\* key.
C11_KeylessProjectionIsMissingOnce ==
    (Scanned /\ ~trace.result.raised) =>
        \A fp \in VisualPaths : \A r \in RefsOf(VisualFileAt(fp)) :
            /\ \A k \in 1..Len(BucketsOf(VisualFileAt(fp))) :
                  LET name == BucketsOf(VisualFileAt(fp))[k][1]
                      ps == ProjectionSeq(BucketsOf(VisualFileAt(fp))[k][2])
                      n == Cardinality(PlacesOf([nativeQueryRef |-> r, bucket |-> name],
                                                FindingsAt(fp, "missing_displayname")))
                  IN  IF InSet(r, trace.exc.skip_nqr)
                      THEN n = 0
                      ELSE /\ n >= Cardinality(Keyless(ps, r))
                           /\ n <= Cardinality(Keyless(ps, r)) + Cardinality(Keyed(ps, r) \ Named(ps, r))
            /\ InSet(r, trace.exc.skip_nqr) =>
                  \A j \in 1..Len(FindingsAt(fp, "displayname")) :
                      FindingsAt(fp, "displayname")[j].nativeQueryRef # r
            /\ Cardinality({j \in 1..Len(FindingsAt(fp, "displayname")) :
                               FindingsAt(fp, "displayname")[j].nativeQueryRef = r})
                  <= Cardinality(UNION {{<<k, i>> : i \in Keyed(ProjectionSeq(BucketsOf(VisualFileAt(fp))[k][2]), r)} :
                                           k \in 1..Len(BucketsOf(VisualFileAt(fp)))})

\* A scan of a visual with three projections without displayName, the first
\* and the third of a ref that is skipped, gave the one finding of the second.
C11_Witness ==
    /\ Scanned
    /\ ~trace.result.raised
    /\ InSet(JStr(T_OK), trace.exc.skip_nqr)
    /\ \E fp \in VisualPaths :
          /\ VisualFileAt(fp) = JsonFile(ProjectionsDoc(<<"missing", "missing", "missing">>))
          /\ FindingsAt(fp, "missing_displayname") =
                 << [nativeQueryRef |-> JStr(T_Sales), bucket |-> BucketName] >>
          /\ FindingsAt(fp, "displayname") = <<>>

\* The places <<path, bucket, index>> of the projections of the files that
\* load, and the projection at a place.
ProjectionPlaces(fp) ==
    UNION {{<<fp, k, i>> : i \in 1..Len(ProjectionSeq(BucketsOf(VisualFileAt(fp))[k][2]))} :
              k \in 1..Len(BucketsOf(VisualFileAt(fp)))}
ProjectionAt(place) ==
    ProjectionSeq(BucketsOf(VisualFileAt(place[1]))[place[2]][2])[place[3]]

\* The projections that bear a nativeQueryRef (a non-empty one), and those
\* of them that carry a displayName (the key, whatever its value).
WithRef ==
    {place \in UNION {ProjectionPlaces(fp) : fp \in VisualPaths} :
        Truthy(DictGet(ProjectionAt(place), K_nativeQueryRef, JNull))}
WithDisplayName == {place \in WithRef : HasKey(ProjectionAt(place), K_displayName)}

\* The percentage shown by the coverage line, in tenths.
ShownTenths(text) == CoverageLine(text)[4].tenths

\* C12: the validator reports total = the number of projections bearing a
\* nativeQueryRef and with_displayname = the number of those carrying a
\* displayName, 0 <= with_displayname <= total, and a percentage that is 0
\* when total is 0 and else with_displayname / total * 100 to the nearest
\* tenth.
C12_CoverageIsShareOfNamed ==
    (call = "validate_translation_coverage" /\ ~out.raised) =>
        /\ out.text[4] = <<Lit("Projections total: "), Number(Cardinality(WithRef))>>
        /\ CoverageLine(out.text) =
               <<Lit("Projections with displayName: "), Number(Cardinality(WithDisplayName)),
                 Lit(" ("), Tenths(ShownTenths(out.text)), Lit("%)")>>
        /\ 0 <= Cardinality(WithDisplayName)
        /\ Cardinality(WithDisplayName) <= Cardinality(WithRef)
        /\ Cardinality(WithRef) = 0 => ShownTenths(out.text) = 0
        /\ Cardinality(WithRef) > 0 =>
              /\ 2 * (ShownTenths(out.text) * Cardinality(WithRef)
                      - 1000 * Cardinality(WithDisplayName)) <= Cardinality(WithRef)
              /\ 2 * (1000 * Cardinality(WithDisplayName)
                      - ShownTenths(out.text) * Cardinality(WithRef)) <= Cardinality(WithRef)

\* The validator counted three projections, two of them with a displayName
\* (one of these an empty one): 66.7%.
C12_Witness ==
    /\ call = "validate_translation_coverage"
    /\ ~out.raised
    /\ \E fp \in VisualPaths :
          VisualFileAt(fp) = JsonFile(ProjectionsDoc(<<"same", "empty", "missing">>))
    /\ out.text[4] = <<Lit("Projections total: "), Number(3)>>
    /\ CoverageLine(out.text) =
           <<Lit("Projections with displayName: "), Number(2), Lit(" ("), Tenths(667), Lit("%)")>>

\* The validator found no projection with a nativeQueryRef: 0.0%.
C12_WitnessNoProjections ==
    /\ call = "validate_translation_coverage"
    /\ ~out.raised
    /\ out.text[4] = <<Lit("Projections total: "), Number(0)>>
    /\ ShownTenths(out.text) = 0

\* What scan_visual returns for the file at fp under the latest call's
\* target and exception sets.
ScanOf(fp) ==
    scan_visual(VisualFileAt(fp), trace.target, trace.exc.skip_nqr, trace.exc.known_good)

\* C13: the result of scan_all has an entry for a visual.json iff scan_visual
\* returned a non-empty category for it; so every entry has a non-empty
\* category, holds the categories scan_visual returned, and names its file by
\* the path from the scan root.
C13_EntryIffSomeCategoryNonEmpty ==
    (Scanned /\ ~trace.result.raised) =>
        /\ \A fp \in VisualPaths :
              (\E vf \in Range(trace.result.visuals) : PathJoin(PagesDir, vf.file) = fp)
                  <=> (\E c \in Range(_ALL_CATS) : ScanOf(fp).cats[c] # <<>>)
        /\ \A vf \in Range(trace.result.visuals) :
              /\ \E c \in Range(_ALL_CATS) : vf[c] # <<>>
              /\ PathJoin(PagesDir, vf.file) \in VisualPaths
              /\ \A c \in Range(_ALL_CATS) : vf[c] = ScanOf(PathJoin(PagesDir, vf.file)).cats[c]

\* A scan of two visuals, one with a finding and one with none, has the one
\* entry.
C13_Witness ==
    /\ Scanned
    /\ ~trace.result.raised
    /\ Cardinality(VisualPaths) = 2
    /\ \E fp \in VisualPaths : VisualFileAt(fp) = JsonFile(CleanDoc)
    /\ Len(trace.result.visuals) = 1
    /\ trace.result.visuals[1].missing_displayname # <<>>

\* The files named by the File: lines of a report, in the order of the lines.
FileLinesOf(text) ==
    LET heads == SelectSeq(text, LAMBDA line : line # <<>> /\ line[1] = Lit("File: "))
    IN  AsSeq([i \in 1..Len(heads) |-> heads[i][2].chars])

FilesOf(result) == AsSeq([i \in 1..Len(result.visuals) |-> result.visuals[i].file])

\* Each path before the next, by code points: sorted, and none twice.
Ascending(paths) ==
    \A i \in 1..(Len(paths) - 1) : StrLess(paths[i], paths[i + 1])

\* C14: the entries of a scan_all result are in ascending order of their
\* paths, no path twice, and the File: sections of the report made from it
\* name the same files in the same order, in whatever order glob listed them.
C14_FilesInSortedOrder ==
    (Scanned /\ ~trace.result.raised) =>
        /\ Ascending(FilesOf(trace.result))
        /\ (call = "scan_english_remaining" /\ FilesOf(trace.result) # <<>>) =>
              FileLinesOf(out.text) = FilesOf(trace.result)

\* A report with two File: sections, a-b/v before a/v ("-" sorts before "/").
C14_Witness ==
    /\ call = "scan_english_remaining"
    /\ ~out.raised
    /\ FileLinesOf(out.text) =
           << <<"a","-","b","/","v","/">> \o VisualJson, <<"a","/","v","/">> \o VisualJson >>

\* The findings of category c in all the files of a result, as places
\* <<file, index>>; and the findings of all categories.
CategoryFindings(result, c) ==
    UNION {{<<i, j>> : j \in 1..Len(result.visuals[i][c])} : i \in 1..Len(result.visuals)}
AllFindings(result) ==
    UNION {{<<c, place>> : place \in CategoryFindings(result, c)} : c \in Range(_ALL_CATS)}

\* The lines of a report after its SUMMARY: line.
SummaryOf(text) ==
    LET at == CHOOSE i \in 1..Len(text) : text[i] = <<Lit("SUMMARY:")>>
    IN  SubSeq(text, at + 1, Len(text))

\* C15: in a report that is not the clean sentence, the TOTAL line shows the
\* number of findings of all seven categories in all files plus the number of
\* page names, and the summary line of a category shows the number of that
\* category's findings in all files (a category without findings has no
\* summary line).
C15_TotalsAreSums ==
    (/\ call = "scan_english_remaining"
     /\ ~out.raised
     /\ (trace.result.visuals # <<>> \/ trace.result.pages # <<>>)) =>
        LET summary == SummaryOf(out.text)
        IN  /\ summary[Len(summary) - 1] =
                   <<Lit("  TOTAL: "),
                     Number(Cardinality(AllFindings(trace.result)) + Len(trace.result.pages))>>
            /\ \A c \in Range(_ALL_CATS) :
                  \A i \in 1..Len(summary) :
                      (Len(summary[i]) = 4 /\ summary[i][2] = Lit(_CAT_LABELS[c])) =>
                          summary[i][4] = Number(Cardinality(CategoryFindings(trace.result, c)))
            /\ \A c \in Range(_ALL_CATS) :
                  CategoryFindings(trace.result, c) # {} =>
                      \E i \in 1..Len(summary) :
                          summary[i] = <<Lit("  "), Lit(_CAT_LABELS[c]), Lit(": "),
                                         Number(Cardinality(CategoryFindings(trace.result, c)))>>

\* A report of a visual with a title and a subtitle and of a page name: two
\* findings in one category of one file, and a total that counts the page.
C15_Witness ==
    /\ call = "scan_english_remaining"
    /\ ~out.raised
    /\ Len(trace.result.pages) = 1
    /\ Cardinality(CategoryFindings(trace.result, "title_subtitle")) = 2
    /\ \E i \in 1..Len(out.text) :
          out.text[i] = <<Lit("  "), Lit("Title/Subtitle"), Lit(": "), Number(2)>>
    /\ \E n \in 4..12 : out.text[Len(out.text) - 1] = <<Lit("  TOTAL: "), Number(n)>>

\* The displayName of the page.json in directory d, when the file loads and
\* has one that is a str.
HasPageName(d) ==
    /\ pageFiles[d].kind = "json"
    /\ pageFiles[d].doc.t = "obj"
    /\ HasKey(pageFiles[d].doc, K_displayName)
    /\ Item(pageFiles[d].doc, K_displayName).t = "str"
PageName(d) == Item(pageFiles[d].doc, K_displayName).s

\* The findings of a result for the page of directory d.
PageFindings(result, d) == {j \in 1..Len(result.pages) : result.pages[j].page_id = d}

\* C16: scan_page_names reports the page of a directory at most once, under
\* the directory's name and with the displayName as it is in the file, and
\* does so iff the displayName is readable, not non-translatable, not in
\* known_good and without a character of the target profile; a page.json
\* that does not load or has no displayName is not reported.
C16_PageReportedIffCandidate ==
    (Scanned /\ ~trace.result.raised) =>
        /\ \A j \in 1..Len(trace.result.pages) :
              /\ trace.result.pages[j].page_id \in DOMAIN pageFiles
              /\ HasPageName(trace.result.pages[j].page_id)
              /\ trace.result.pages[j].displayName = PageName(trace.result.pages[j].page_id)
        /\ \A d \in DOMAIN pageFiles :
              /\ Cardinality(PageFindings(trace.result, d)) <= 1
              /\ PageFindings(trace.result, d) # {} <=>
                    /\ HasPageName(d)
                    /\ _is_readable(PageName(d))
                    /\ ~_is_non_translatable(PageName(d))
                    /\ ~InSet(JStr(PageName(d)), trace.exc.known_good)
                    /\ Range(PageName(d)) \cap trace.target = {}

\* With the Swedish profile the page named "Sales Overview" is reported,
\* with that text, and the page named T_Forsaljningsoversikt is not.
C16_Witness ==
    /\ Scanned
    /\ "U+00F6" \in trace.target
    /\ \E d \in DOMAIN pageFiles : pageFiles[d] = JsonFile(PageDoc(T_Forsaljningsoversikt))
    /\ trace.result.pages = << [page_id |-> PageDirNames[2], displayName |-> T_SalesOverview] >>

\* The profile of a supported tag, and the supported tags that start with
\* the given one.
ProfileOf(tag) == LANGUAGE_CHARS[CHOOSE i \in 1..Len(LANGUAGE_CHARS) : LANGUAGE_CHARS[i][1] = tag][2]
TagsStartingWith(lang) == {tag \in SupportedTags : StartsWith(tag, lang)}

\* C17: the profile a scan uses is the one of the tag it was given when the
\* tag is supported; else the one of a supported tag that starts with the
\* given tag, when there is one; else, and for an empty tag, the Swedish one;
\* and it is never empty.
C17_TargetResolution ==
    Scanned =>
        /\ trace.target # {}
        /\ args.target_language \in SupportedTags =>
              trace.target = ProfileOf(args.target_language)
        /\ (/\ args.target_language \notin SupportedTags
            /\ args.target_language # <<>>
            /\ TagsStartingWith(args.target_language) # {}) =>
              \E tag \in TagsStartingWith(args.target_language) : trace.target = ProfileOf(tag)
        /\ (args.target_language = <<>> \/ TagsStartingWith(args.target_language) = {}) =>
              trace.target = ProfileOf(<<"s","v","-","S","E">>)

\* A scan given "de" used the German profile.
C17_Witness ==
    /\ Scanned
    /\ args.target_language = <<"d","e">>
    /\ trace.target = ProfileOf(<<"d","e","-","D","E">>)
    /\ "U+00DF" \in trace.target

\* The exception sets a first call reads from the exceptions file as it is
\* now (a well-formed one, or none).
SetsOnFile ==
    IF args.exceptions_file = <<>> \/ excFile.kind = "absent"
    THEN [raised |-> FALSE, skip_nqr |-> {}, known_good |-> {}]
    ELSE [raised |-> FALSE,
          skip_nqr |-> ElementsAt(excFile.doc, K_skip) \cup ElementsAt(excFile.doc, K_skip_nqr),
          known_good |-> ValuesAt(excFile.doc, K_translations)
                         \cup ElementsAt(excFile.doc, K_known_good)]

\* What scan_all returns on the files as they are now, with those sets.
ScanOnFiles ==
    scan_all(CHOOSE l \in Listings(VisualPaths) : TRUE, CHOOSE l \in Listings(PagePaths) : TRUE,
             _resolve_target(args.target_language), SetsOnFile.skip_nqr, SetsOnFile.known_good)

\* What the tool returns when called first, on the files as they are now.
FirstCallOf(tool) ==
    CASE tool = "scan_english_remaining" ->
            IF ScanOnFiles.raised
            THEN Raised
            ELSE [raised |-> FALSE, text |-> format_findings(ScanOnFiles)]
      [] tool = "scan_missing_displaynames" ->
            MissingDisplaynames(CHOOSE l \in Listings(VisualPaths) : TRUE, SetsOnFile.skip_nqr)
      [] tool = "validate_translation_coverage" ->
            LET report == CoverageReport(ScanOnFiles,
                              CountProjections(CHOOSE l \in Listings(VisualPaths) : TRUE))
            IN  [raised |-> report.raised, text |-> report.text]

\* C18: whatever calls and changes of the files came before, a call leaves
\* the language table as the module defines it, reads the exception sets from
\* the exceptions file as it is at the call, and returns what the same call
\* returns when it is the first on the files as they are at the call.
C18_EachCallAsIfFirst ==
    /\ languageTable = LANGUAGE_CHARS
    /\ call # "none" =>
          /\ trace.exc = SetsOnFile
          /\ out = FirstCallOf(call)

\* A scan reported the title "OK" that the scan before it had left out as
\* known good: the exceptions file was removed between the two.
C18_Witness ==
    /\ call = "scan_english_remaining"
    /\ prev.call = "scan_english_remaining"
    /\ excFile = AbsentFile
    /\ trace.exc = NoExceptions
    /\ ~out.raised
    /\ ~prev.out.raised
    /\ <<Lit("  "), Lit("Title/Subtitle"), Lit(": "), Number(2)>> \in Range(out.text)
    /\ <<Lit("  "), Lit("Title/Subtitle"), Lit(": "), Number(2)>> \notin Range(prev.out.text)
    /\ <<Lit("File: "), Chars(<<"a","/","v","/">> \o VisualJson)>> \in Range(prev.out.text)

\* C19: _is_non_translatable returns true for every string that, between
\* surrounding whitespace and within one pair of quotes if it has one, is a
\* hex color, starts with rgb( or rgba(, is true or false in any letter case,
\* is a bare number, or has fewer than 2 characters.
C19_LiteralsAreNonTranslatable ==
    (/\ call = "_is_non_translatable"
     /\ args.raw \in Wrapped(HexColors \cup RgbColors \cup BooleanLiterals \cup BareNumbers
                             \cup ShortStrings)) =>
        out.value

\* The classifier was given -12.250D in double quotes between a tab and a
\* newline, and returned true.
C19_Witness ==
    /\ call = "_is_non_translatable"
    /\ args.raw = <<"\t", "\"", "-","1","2",".","2","5","0","D", "\"", "\n">>
    /\ out.value

\* C20, as stated: for a string about fonts, which no other rule of
\* _is_non_translatable matches, the function returns true iff the string has
\* a font keyword and a comma, a single quote or a double quote.
C20_FontRuleOnCommaOrAnyQuote ==
    call = "_is_non_translatable" =>
        \A word \in FontWords \cup PlainWords, mark \in Marks, how \in Wrappings :
            args.raw \in {Marked(word, mark), Wrap(how, Marked(word, mark))} =>
                (out.value <=> (word \in FontWords /\ mark # "none"))

\* What line 71 does: the same with the double quote counting for nothing.
C20_FontRuleOnCommaOrSingleQuote ==
    call = "_is_non_translatable" =>
        \A word \in FontWords \cup PlainWords, mark \in Marks, how \in Wrappings :
            args.raw \in {Marked(word, mark), Wrap(how, Marked(word, mark))} =>
                (out.value <=> (word \in FontWords /\ mark \in {"comma", "single"}))

\* The order in which the spec names the categories.
StatedOrder ==
    <<"title_subtitle", "displayname", "missing_displayname",
      "textbox", "placeholder", "header_text", "button_text">>

\* The places of the lines of a report that open the page names block, a
\* File: section and the summary.
PageBlockAt(text) ==
    {i \in 1..Len(text) : text[i] # <<>> /\ text[i][1] = Lit("UNTRANSLATED PAGE NAMES (")}
FileAt(text) == {i \in 1..Len(text) : text[i] # <<>> /\ text[i][1] = Lit("File: ")}
SummaryAt(text) == {i \in 1..Len(text) : text[i] = <<Lit("SUMMARY:")>>}

\* The section a File: line at place i opens: the lines after it up to the
\* next blank line.
SectionOf(text, i) ==
    LET end == CHOOSE j \in (i + 1)..Len(text) :
                   text[j] = <<>> /\ \A k \in (i + 1)..(j - 1) : text[k] # <<>>
    IN  SubSeq(text, i + 1, end - 1)

\* The category headings of a section, label and count, in their order.
HeadingsOf(section) ==
    LET heads == SelectSeq(section, LAMBDA line : Len(line) = 5 /\ line[3] = Lit(" ("))
    IN  AsSeq([i \in 1..Len(heads) |-> <<heads[i][2], heads[i][4]>>])

\* The headings an entry of the result is due: its non-empty categories in
\* the stated order.
HeadingsDue(vf) ==
    LET cats == SelectSeq(StatedOrder, LAMBDA c : vf[c] # <<>>)
    IN  AsSeq([i \in 1..Len(cats) |-> <<Lit(_CAT_LABELS[cats[i]]), Number(Len(vf[cats[i]]))>>])

\* The k-th of a set of places, counting upwards.
NthOf(places, k) == CHOOSE i \in places : Cardinality({j \in places : j < i}) = k - 1

\* C21: in a report that is not the clean sentence, the page names block (if
\* there are page names) comes whole before every File: section, every File:
\* section comes before the one SUMMARY line, the File: sections are those of
\* the entries of visuals in their order, and the section of an entry lists
\* its non-empty categories, and only these, in the stated order.
C21_ReportSectionsInOrder ==
    (/\ call = "scan_english_remaining"
     /\ ~out.raised
     /\ (trace.result.visuals # <<>> \/ trace.result.pages # <<>>)) =>
        /\ Cardinality(SummaryAt(out.text)) = 1
        /\ Cardinality(PageBlockAt(out.text)) = (IF trace.result.pages # <<>> THEN 1 ELSE 0)
        /\ \A p \in PageBlockAt(out.text), f \in FileAt(out.text) :
              p + Len(trace.result.pages) < f
        /\ \A p \in PageBlockAt(out.text), s \in SummaryAt(out.text) :
              p + Len(trace.result.pages) < s
        /\ \A f \in FileAt(out.text), s \in SummaryAt(out.text) :
              f + Len(SectionOf(out.text, f)) < s
        /\ Cardinality(FileAt(out.text)) = Len(trace.result.visuals)
        /\ \A k \in 1..Len(trace.result.visuals) :
              /\ out.text[NthOf(FileAt(out.text), k)] =
                     <<Lit("File: "), Chars(trace.result.visuals[k].file)>>
              /\ HeadingsOf(SectionOf(out.text, NthOf(FileAt(out.text), k))) =
                     HeadingsDue(trace.result.visuals[k])

\* A report of two page names and two files: the page block, then the two
\* sections, each with the same four of the seven categories, then the summary.
C21_Witness ==
    /\ call = "scan_english_remaining"
    /\ ~out.raised
    /\ Len(trace.result.pages) = 2
    /\ Len(trace.result.visuals) = 2
    /\ PageBlockAt(out.text) = {4}
    /\ Cardinality(FileAt(out.text)) = 2
    /\ \A f \in FileAt(out.text) :
          HeadingsOf(SectionOf(out.text, f)) =
              << <<Lit("Title/Subtitle"), Number(2)>>,
                 <<Lit("Missing displayName"), Number(1)>>,
                 <<Lit("Placeholder text"), Number(1)>>,
                 <<Lit("Header/label text"), Number(1)>> >>

\* C22: while a scan or validation call runs at most one file is open, and
\* that one is the file the call is reading; between calls, and so when a
\* call has returned or raised, no file is open.
C22_OneFileOpenAtATime ==
    /\ Len(openFiles) <= 1
    /\ pending.at \in {"idle", "open", "return"} => openFiles = <<>>
    /\ pending.at = "load" => openFiles = <<Head(pending.queue).fp>>

\* A call has read a visual.json that did not parse and has the next file
\* open, alone.
C22_Witness ==
    /\ pending.at = "load"
    /\ pending.tool = "validate_translation_coverage"
    /\ pending.queue[1].reader = "_validate_coverage"
    /\ \E fp \in VisualPaths :
          /\ VisualFileAt(fp).kind = "JSONDecodeError"
          /\ \A i \in 1..Len(pending.queue) : pending.queue[i].fp # fp
    /\ openFiles = <<pending.queue[1].fp>>

\* A call that met a file that did not parse has returned and no file is open.
C22_WitnessReturned ==
    /\ call = "scan_english_remaining"
    /\ pending.at = "idle"
    /\ ~out.raised
    /\ \E fp \in VisualPaths : VisualFileAt(fp).kind \in {"JSONDecodeError", "UnicodeDecodeError"}
    /\ openFiles = <<>>

\* Reading a document: the elements of a list, the value at a key.
ElementsOf(v) == IF v.t = "arr" THEN v.a ELSE <<>>
ValueAt(v, key) == IF v.t = "obj" /\ HasKey(v, key) THEN Item(v, key) ELSE JNull

\* The values of the runs of a list of paragraphs, in order.
RunsOfParagraphs(paragraphs) ==
    Flatten([i \in 1..Len(ElementsOf(paragraphs)) |->
        AsSeq([j \in 1..Len(ElementsOf(ValueAt(ElementsOf(paragraphs)[i], K_textRuns))) |->
                  ValueAt(ElementsOf(ValueAt(ElementsOf(paragraphs)[i], K_textRuns))[j],
                          K_value)])])

\* The run values at objects.general[].properties.paragraphs[].textRuns[]
\* and at visual.paragraphs[].textRuns[] of a document.
GeneralRuns(doc) ==
    Flatten([i \in 1..Len(ElementsOf(ValueAt(ValueAt(ValueAt(doc, K_visual), K_objects), K_general))) |->
        RunsOfParagraphs(ValueAt(ValueAt(
            ElementsOf(ValueAt(ValueAt(ValueAt(doc, K_visual), K_objects), K_general))[i],
            K_properties), K_paragraphs))])
VisualRuns(doc) == RunsOfParagraphs(ValueAt(ValueAt(doc, K_visual), K_paragraphs))

\* The finding a run value is due: the trimmed text for a readable,
\* translatable text without a character of the target, none for a text
\* with such a character, a number or a blank.
FindingDue(value, target) ==
    CASE value = JStr(T_ClickHerePadded) -> << [text |-> T_ClickHere] >>
      [] value = JStr(T_Sales)           -> << [text |-> T_Sales] >>
      [] value = JStr(T_OK)              -> << [text |-> T_OK] >>
      [] value = JStr(T_for)             ->
            IF "U+00F6" \in target THEN <<>> ELSE << [text |-> T_for] >>
      [] value = JStr(T_12)              -> <<>>
      [] value = JStr(<<" ">>)           -> <<>>
      [] value = JStr(<<>>)              -> <<>>
FindingsDue(values, target) ==
    Flatten([i \in 1..Len(values) |-> FindingDue(values[i], target)])
Classified == {JStr(T_ClickHerePadded), JStr(T_Sales), JStr(T_OK), JStr(T_for), JStr(T_12),
               JStr(<<" ">>), JStr(<<>>)}

\* The visual.json files of type textbox whose runs are of the classified
\* values.
TextboxPaths ==
    {fp \in VisualPaths :
        /\ VisualFileAt(fp).kind = "json"
        /\ ValueAt(VisualFileAt(fp).doc, K_visualType) = JStr(VT_textbox)
        /\ Range(GeneralRuns(VisualFileAt(fp).doc)) \cup Range(VisualRuns(VisualFileAt(fp).doc))
              \subseteq Classified}

\* C23: the textbox findings of a visual of type textbox are one per run
\* value that is readable, translatable and without target character, at
\* objects.general[].properties.paragraphs[].textRuns[] and at
\* visual.paragraphs[].textRuns[], with the trimmed value as text, those of
\* objects.general first, each place in document order, nothing dropped for
\* being there twice.
C23_TextboxRunsOfBothShapes ==
    (Scanned /\ ~trace.result.raised) =>
        \A fp \in TextboxPaths :
            FindingsAt(fp, "textbox") =
                FindingsDue(GeneralRuns(VisualFileAt(fp).doc), trace.target)
                \o FindingsDue(VisualRuns(VisualFileAt(fp).doc), trace.target)

\* A textbox with a padded "Click here" under objects.general and the same
\* and "Sales" under visual.paragraphs: three findings.
C23_Witness ==
    /\ Scanned
    /\ ~trace.result.raised
    /\ \E fp \in VisualPaths :
          /\ VisualFileAt(fp) = JsonFile(TextboxDoc(<<T_ClickHerePadded>>,
                                                    <<T_ClickHerePadded, T_Sales>>))
          /\ FindingsAt(fp, "textbox") =
                 << [text |-> T_ClickHere], [text |-> T_ClickHere], [text |-> T_Sales] >>

\* The projections of a file that have the ref r, as places <<bucket, index>>.
ProjectionsWithRef(file, r) ==
    UNION {{<<k, i>> : i \in Keyless(ProjectionSeq(BucketsOf(file)[k][2]), r)
                             \cup Keyed(ProjectionSeq(BucketsOf(file)[k][2]), r)} :
              k \in 1..Len(BucketsOf(file))}

\* The displayName of the projection at a place of a file.
DisplayNameAt(file, place) ==
    DictGet(ProjectionSeq(BucketsOf(file)[place[1]][2])[place[2]], K_displayName, JNull)

\* Every projection of the file with the ref r has a displayName, and one
\* that differs from r.
Renamed(file, r) ==
    /\ ProjectionsWithRef(file, r) # {}
    /\ \A place \in ProjectionsWithRef(file, r) :
          /\ HasKey(ProjectionSeq(BucketsOf(file)[place[1]][2])[place[2]], K_displayName)
          /\ DisplayNameAt(file, place) # r

\* The same, the displayName being a value that is not empty.
RenamedToAValue(file, r) ==
    /\ Renamed(file, r)
    /\ \A place \in ProjectionsWithRef(file, r) : Truthy(DisplayNameAt(file, place))

\* No finding of the two projection categories of the file at fp has the ref r.
NoProjectionFinding(fp, r) ==
    /\ \A j \in 1..Len(FindingsAt(fp, "displayname")) :
          FindingsAt(fp, "displayname")[j].nativeQueryRef # r
    /\ \A j \in 1..Len(FindingsAt(fp, "missing_displayname")) :
          FindingsAt(fp, "missing_displayname")[j].nativeQueryRef # r

\* C24, as stated: every displayname finding has its nativeQueryRef as text,
\* and a ref whose projections all have a displayName that differs from it
\* has no displayname finding and no missing_displayname finding, whatever
\* that displayName is.
C24_RenamedProjectionGivesNoFinding ==
    (Scanned /\ ~trace.result.raised) =>
        \A fp \in VisualPaths :
            /\ \A j \in 1..Len(FindingsAt(fp, "displayname")) :
                  JStr(FindingsAt(fp, "displayname")[j].text) =
                      FindingsAt(fp, "displayname")[j].nativeQueryRef
            /\ \A r \in RefsOf(VisualFileAt(fp)) :
                  Renamed(VisualFileAt(fp), r) => NoProjectionFinding(fp, r)

\* What lines 171-177 do: the same for a displayName that is a non-empty
\* value; an empty one or null is taken for none at line 171.
C24_RenamedToAValueGivesNoFinding ==
    (Scanned /\ ~trace.result.raised) =>
        \A fp \in VisualPaths :
            /\ \A j \in 1..Len(FindingsAt(fp, "displayname")) :
                  JStr(FindingsAt(fp, "displayname")[j].text) =
                      FindingsAt(fp, "displayname")[j].nativeQueryRef
            /\ \A r \in RefsOf(VisualFileAt(fp)) :
                  RenamedToAValue(VisualFileAt(fp), r) => NoProjectionFinding(fp, r)

\* A scan of a projection renamed to "Namn" found nothing at its ref.
C24_RenamedSeen ==
    /\ Scanned
    /\ ~trace.result.raised
    /\ \E fp \in VisualPaths :
          /\ VisualFileAt(fp) = JsonFile(VisualDoc(VT_card, T_OK, "renamed"))
          /\ RenamedToAValue(VisualFileAt(fp), JStr(T_OK))
          /\ NoProjectionFinding(fp, JStr(T_OK))

\* The servers that are connected, by their place.
ConnectedServers == {s \in 1..Len(servers) : servers[s].connected}

\* C25, as stated: after any sequence of connect_local, connect_fabric,
\* connect_pbip and disconnect calls, those that fail and a disconnect whose
\* server.Disconnect() raises among them, at most one server is connected,
\* and it is the one _state refers to.
C25_OneConnectionAtATime ==
    /\ Cardinality(ConnectedServers) <= 1
    /\ \A s \in ConnectedServers : _state.server = s

\* What the code does keep: of the servers no Disconnect() of which raised
\* with the connection still there, at most one is connected, the one _state
\* refers to.
C25_OneConnectionUnlessLeftOpen ==
    /\ Cardinality({s \in ConnectedServers : ~servers[s].left_open}) <= 1
    /\ \A s \in ConnectedServers : ~servers[s].left_open => _state.server = s

\* A second connect_local after a first: the first server is disconnected,
\* the second connected and referred to.
C25_Reconnected ==
    /\ call = "connect_local"
    /\ ~out.raised
    /\ Len(servers) = 2
    /\ ~servers[1].connected
    /\ servers[2].connected
    /\ _state.server = 2

\* The report of scan_english_remaining that finds nothing.
CleanSentence == << <<Lit("No suspected untranslated content found.")>> >>

\* The validator's verdict and its count of suspected strings, and the TOTAL
\* of a report that is not the clean sentence.
Passed(text) == VerdictLine(text) = <<Lit("VERDICT: "), Lit("PASS")>>
IssuesShown(text) == text[8][2].number
TotalShown(text) == text[Len(text) - 1][2].number

\* The validator's text agrees with the report's.
Agree(validation, report) ==
    /\ Passed(validation) <=> report = CleanSentence
    /\ report # CleanSentence =>
          /\ validation[8][1] = Lit("Total suspected untranslated strings: ")
          /\ report[Len(report) - 1][1] = Lit("  TOTAL: ")
          /\ IssuesShown(validation) = TotalShown(report)

\* C26: of a call of validate_translation_coverage and a call of
\* scan_english_remaining on the same directory, with the same target and
\* exceptions file, one made after the other and both returning, the verdict
\* is PASS iff the report is the clean sentence, and when it is not, the
\* validator's count of suspected strings is the report's TOTAL.
C26_VerdictAgreesWithReport ==
    /\ (/\ call = "validate_translation_coverage"
        /\ prev.call = "scan_english_remaining"
        /\ ~out.raised
        /\ ~prev.out.raised) => Agree(out.text, prev.out.text)
    /\ (/\ call = "scan_english_remaining"
        /\ prev.call = "validate_translation_coverage"
        /\ ~out.raised
        /\ ~prev.out.raised) => Agree(prev.out.text, out.text)

\* A report with a TOTAL of 3, one of them a page name, and then a
\* validation that fails with 3 suspected strings.
C26_Witness ==
    /\ call = "validate_translation_coverage"
    /\ prev.call = "scan_english_remaining"
    /\ ~out.raised
    /\ ~prev.out.raised
    /\ ~Passed(out.text)
    /\ Len(trace.result.pages) >= 1
    /\ trace.result.visuals # <<>>
    /\ IssuesShown(out.text) >= 3
    /\ TotalShown(prev.out.text) = IssuesShown(out.text)

\* The clean sentence, and then a validation that passes.
C26_WitnessClean ==
    /\ call = "validate_translation_coverage"
    /\ prev.call = "scan_english_remaining"
    /\ ~out.raised
    /\ prev.out.text = CleanSentence
    /\ Passed(out.text)
    /\ visualFiles # NoFiles

\* The numbers the three tools show for projections without a displayName:
\* the missing_displayname findings of the scan, the validator's
\* "Projections missing displayName", and the count of
\* scan_missing_displaynames (none when all have one).
MissingFound(result) == Cardinality(CategoryFindings(result, "missing_displayname"))
MissingShown(validation) == validation[6][2].number
MissingListed(listing) ==
    IF listing = << <<Lit("All projections have displayName overrides.")>> >>
    THEN 0
    ELSE listing[1][2].number

\* C27, as stated: with an empty skip_nqr, the missing_displayname findings
\* of scan_all are as many as the validator's "Projections missing
\* displayName" and as many as scan_missing_displaynames counts, also for
\* projections whose displayName is there and is empty or null.
C27_ThreeCountsOfMissingAgree ==
    /\ (/\ call = "validate_translation_coverage"
        /\ ~out.raised
        /\ trace.exc.skip_nqr = {}) =>
            /\ out.text[6][1] = Lit("Projections missing displayName: ")
            /\ MissingShown(out.text) = MissingFound(trace.result)
    /\ (/\ call = "scan_missing_displaynames"
        /\ prev.call = "validate_translation_coverage"
        /\ ~out.raised
        /\ ~prev.out.raised
        /\ trace.exc.skip_nqr = {}) =>
            MissingListed(out.text) = MissingShown(prev.out.text)

\* Every projection with a ref has no displayName key or a displayName that
\* is a non-empty value.
NoEmptyDisplayName ==
    \A place \in WithDisplayName : Truthy(DictGet(ProjectionAt(place), K_displayName, JNull))

\* What the code does: the three agree where no projection has an empty or
\* null displayName; lines 171, 356 and 432 part on those.
C27_CountsAgreeWithoutEmptyNames ==
    NoEmptyDisplayName =>
        /\ (/\ call = "validate_translation_coverage"
            /\ ~out.raised
            /\ trace.exc.skip_nqr = {}) =>
                MissingShown(out.text) = MissingFound(trace.result)
        /\ (/\ call = "scan_missing_displaynames"
            /\ prev.call = "validate_translation_coverage"
            /\ ~out.raised
            /\ ~prev.out.raised
            /\ trace.exc.skip_nqr = {}) =>
                MissingListed(out.text) = MissingShown(prev.out.text)

\* Three projections without displayName key, counted three times three.
C27_AgreeSeen ==
    /\ call = "scan_missing_displaynames"
    /\ prev.call = "validate_translation_coverage"
    /\ ~out.raised
    /\ ~prev.out.raised
    /\ trace.exc.skip_nqr = {}
    /\ MissingListed(out.text) = 3
    /\ MissingShown(prev.out.text) = 3

\* The validator's counts of projections: total and with displayName.
TotalCounted(validation) == validation[4][2].number
NamedCounted(validation) == validation[5][2].number

\* C28: with an empty skip_nqr, a validation that passes has counted a
\* displayName for every projection that bears a nativeQueryRef, and each of
\* them carries one: the coverage shown is 100.0%, or 0.0% when there is no
\* such projection.
C28_PassMeansEveryProjectionNamed ==
    (/\ call = "validate_translation_coverage"
     /\ ~out.raised
     /\ trace.exc.skip_nqr = {}
     /\ Passed(out.text)) =>
        /\ NamedCounted(out.text) = TotalCounted(out.text)
        /\ WithDisplayName = WithRef
        /\ TotalCounted(out.text) = Cardinality(WithRef)
        /\ ShownTenths(out.text) = (IF WithRef = {} THEN 0 ELSE 1000)

\* A validation without skip_nqr passed a directory with a projection, which
\* has a displayName: 100.0%.
C28_Witness ==
    /\ call = "validate_translation_coverage"
    /\ ~out.raised
    /\ trace.exc.skip_nqr = {}
    /\ Passed(out.text)
    /\ Cardinality(WithRef) >= 1
    /\ ShownTenths(out.text) = 1000

\* With an entry in skip_nqr a validation passed at a coverage between 0 and
\* 100%.
C28_WitnessSkipped ==
    /\ call = "validate_translation_coverage"
    /\ ~out.raised
    /\ trace.exc.skip_nqr # {}
    /\ Passed(out.text)
    /\ ShownTenths(out.text) > 0
    /\ ShownTenths(out.text) < 1000

\* The objects under objects.header of a document, and under all the
\* sections of objects that are lists.
ObjectsOf(doc) == ValueAt(ValueAt(doc, K_visual), K_objects)
HeaderObjects(doc) == ElementsOf(ValueAt(ObjectsOf(doc), K_header))
AllObjects(doc) ==
    IF ObjectsOf(doc).t = "obj"
    THEN Flatten([i \in 1..Len(ObjectsOf(doc).kv) |-> ElementsOf(ObjectsOf(doc).kv[i][2])])
    ELSE <<>>

\* The literal at properties.text.expr.Literal.Value of an object.
TextLiteralOf(obj) ==
    ValueAt(ValueAt(ValueAt(ValueAt(ValueAt(obj, K_properties), K_text), K_expr),
                    K_Literal), K_Value)

\* The text a literal is reported with, for the literals that are
\* reportable: a word, the same in quotes, a word with a German character
\* under a target without it.
ReportableLiterals(target) ==
    {JStr(T_OK), JStr(T_qOK), JStr(T_Sales)}
    \cup (IF "U+00FC" \in target THEN {} ELSE {JStr(T_fur)})
ReportedAs(literal) == IF literal = JStr(T_qOK) THEN T_OK ELSE literal.s

\* The objects of a sequence whose text literal is reportable and reported
\* as the text s.
ObjectsSaying(objs, s, target) ==
    {i \in 1..Len(objs) : /\ TextLiteralOf(objs[i]) \in ReportableLiterals(target)
                          /\ ReportedAs(TextLiteralOf(objs[i])) = s}

\* The visual.json files of a button type.
ButtonPaths ==
    {fp \in VisualPaths :
        /\ VisualFileAt(fp).kind = "json"
        /\ ValueAt(VisualFileAt(fp).doc, K_visualType) \in {JStr(VT_button), JStr(VT_actionButton)}}

\* C29: in a visual of type button or actionButton each reportable text
\* literal of an object under objects.header gives one header_text finding
\* and one button_text finding of property "text" (so a text has as many
\* header_text findings as header objects say it, and as many button_text
\* findings of property "text" as objects of all sections say it; texts of
\* the known_good set are left aside), and the
\* report's TOTAL and the validator's count take every finding of every
\* category, so such a literal twice.
C29_HeaderLiteralOfButtonCountsTwice ==
    (Scanned /\ ~trace.result.raised) =>
        /\ \A fp \in ButtonPaths :
              \A s \in {t \in {T_OK, T_Sales, T_fur} : ~InSet(JStr(t), trace.exc.known_good)} :
                 /\ Cardinality(PlacesOf([text |-> s], FindingsAt(fp, "header_text"))) =
                        Cardinality(ObjectsSaying(HeaderObjects(VisualFileAt(fp).doc), s,
                                                  trace.target))
                 /\ Cardinality(PlacesOf([text |-> s, property |-> K_text],
                                         FindingsAt(fp, "button_text"))) =
                        Cardinality(ObjectsSaying(AllObjects(VisualFileAt(fp).doc), s,
                                                  trace.target))
                 /\ Cardinality(PlacesOf([text |-> s, property |-> K_text],
                                         FindingsAt(fp, "button_text"))) >=
                        Cardinality(PlacesOf([text |-> s], FindingsAt(fp, "header_text")))
        /\ (call = "scan_english_remaining" /\ ~out.raised /\ out.text # CleanSentence) =>
              TotalShown(out.text) =
                  Cardinality(AllFindings(trace.result)) + Len(trace.result.pages)
        /\ (call = "validate_translation_coverage" /\ ~out.raised) =>
              IssuesShown(out.text) =
                  Cardinality(AllFindings(trace.result)) + Len(trace.result.pages)

\* An action button with two header objects, "OK" and 'OK' in quotes, and an
\* object "Sales" elsewhere: two header_text findings, three button_text
\* findings, and a TOTAL of five.
C29_Witness ==
    /\ call = "scan_english_remaining"
    /\ ~out.raised
    /\ \E fp \in VisualPaths :
          /\ VisualFileAt(fp) = JsonFile(HeadersDoc(VT_actionButton, <<T_OK, T_qOK>>))
          /\ FindingsAt(fp, "header_text") = << [text |-> T_OK], [text |-> T_OK] >>
          /\ FindingsAt(fp, "button_text") =
                 << [text |-> T_Sales, property |-> K_text],
                    [text |-> T_OK, property |-> K_text],
                    [text |-> T_OK, property |-> K_text] >>
    /\ TotalShown(out.text) = 5

\* The connect_* calls.
Connects == {"connect_local", "connect_fabric", "connect_pbip"}

\* The parts of a consistent connection state that do not speak of the
\* model handle.
ConsistentButForModel ==
    /\ _state.mode \in {"local", "fabric"} <=> (_state.server # 0 /\ _state.database # 0)
    /\ _state.mode \in {"pbip", "disconnected"} => _state.server = 0
    /\ is_connected(_state) <=> _state.mode # "disconnected"
    /\ (call \in Connects /\ out.raised) => _state = Disconnected
    /\ call = "require_connected" => (out.raised <=> _state.mode = "disconnected")

\* C30: after any calls of connect_* and disconnect, mode is local or fabric
\* exactly when the server, database and model handles are all set, mode
\* pbip or disconnected implies no server, is_connected is true exactly when
\* mode is not disconnected, a connect_* call that raised has left the state
\* disconnected, and require_connected raises exactly in that state.
C30_ConnectionStateConsistent ==
    /\ ConsistentButForModel
    /\ _state.mode \in {"local", "fabric"} <=>
           (_state.server # 0 /\ _state.database # 0 /\ _state.model # 0)

\* C30, the part that holds: all of it but the model handle, which is set in
\* mode local or fabric only when the database has a Model.
C30_ConsistentButForModel == ConsistentButForModel /\ (_state.model # 0 => _state.server # 0)

\* A connect_* call raised although a connection existed before it, and the
\* state is disconnected.
C30_FailedAfterConnected ==
    /\ call \in Connects
    /\ out.raised
    /\ prev.call \in Connects
    /\ ~prev.out.raised
    /\ _state = Disconnected

====
